---- MODULE Spec2Model ----
(***************************************************************************)
(* Checkpointed ingestion pipeline of awc-proto:                           *)
(*   backend/app/jobs/proff_backfill_details.py   (entity-list walker)     *)
(*   backend/app/jobs/proff_build_batch_ebit2024.py (cursor walker)        *)
(* The database tables are the durable state.  The two jobs are separate   *)
(* programs: a behaviour is a series of executions of one of them (job),   *)
(* one process at a time (section 5 of the design: single-threaded,        *)
(* sequential), whose position in main() is pc.  Every                     *)
(* `with engine.begin()` block is one atomic step (it commits when the     *)
(* block is left); a kill can fall between any two steps.                  *)
(***************************************************************************)
EXTENDS Integers, Sequences, FiniteSets, TLC

\* ---------------------------------------------------------------- bounds
NumOrgnrs == 26      \* size of a batch built before the model starts
MaxFaulty == 1       \* detail requests for orgnrs 1..MaxFaulty may fail
NumPages  == 3       \* pages of the search result set
MaxExecs  == 2       \* job executions in one behaviour
MaxKills  == 1       \* of which killed
MaxRecords == 2      \* elements of an "accounts" list given to the normalizer
MaxEntries == 2      \* elements of a candidate list of a search body

\* ------------------------------------------------------ program constants
MAX_RETRIES        == 6
CHECKPOINT_EVERY_N == 25
CHECKPOINT_EVERY_PAGES == 1
BACKOFF_BASE_SECONDS == 1
HISTORY_YEARS      == 5
REGNSKAP_ATTEMPTS == 3

RUN_TYPE_DETAILS == "proff_backfill_details"
RUN_TYPE_SEARCH  == "proff_build_batch_ebit2024"
PHASE_DETAILS    == "details"
PHASE_SEARCH     == "search"

Retryable == {429, 500, 502, 503, 504}

VARIABLES
    \* --- durable tables
    ingestion_run,          \* Seq of run rows; run_id is the index
    ingestion_checkpoint,   \* set of checkpoint rows, key (run_id, phase)
    import_batch_item,      \* orgnrs of the batch
    proff_raw_company,      \* orgnr -> raw row (http_status 0: no row)
    company,                \* orgnrs with a normalized company row
    proff_financial_item,   \* fact keys <<orgnr, year, view, code>>
    \* --- the running process
    pc, job, args, run_id, orgnrs, processed, orgnr,
    next_url, page, last_orgnr,
    attempt, requests, result,
    \* --- observation of executions
    execs, kills, outcome, error, fetched, written, prior, auth_seen,
    \* --- the rows of the entity tables, where the writer is examined
    company_rows,           \* Seq of company rows
    financial_item_rows,    \* Seq of fact rows
    batch_item_rows,        \* Seq of batch item rows
    \* --- one logical request of a client, where its loop is examined
    sleeps,                 \* Seq of the sleeps of the request so far
    tx_open,                \* a transaction of the run is open
    \* --- one call of the normalizer
    input,                  \* [payload, min_year], the arguments
    yielded,                \* Seq of the items yielded, or the note NotRun
    \* --- one call of get_regnskap
    variant,                \* index of the parameter variant in use
    last_exc,               \* the exception kept for the end of the call
    \* --- two runs side by side
    workers                 \* worker -> the locals of its main()

dbvars   == <<ingestion_run, ingestion_checkpoint, import_batch_item,
              proff_raw_company, company, proff_financial_item>>
procvars == <<pc, job, args, run_id, orgnrs, processed, orgnr,
              next_url, page, last_orgnr, attempt, requests, result>>
obsvars  == <<execs, kills, outcome, error, fetched, written, prior,
              auth_seen>>
rowvars  == <<company_rows, financial_item_rows, batch_item_rows>>
clientvars == <<sleeps, tx_open>>
normvars == <<input, yielded>>
brregvars == <<variant, last_exc>>
runsvars == <<workers>>
sidevars == <<rowvars, clientvars, normvars, brregvars, runsvars>>
vars     == <<dbvars, procvars, obsvars, sidevars>>

\* ------------------------------------------------------------ data shapes
NoUrl     == [form |-> "none", page |-> 0]
AbsUrl(p) == [form |-> "abs", page |-> p]
RelUrl(p) == [form |-> "rel", page |-> p]
NoRaw     == [http_status |-> 0, payload |-> "none"]
NoResult  == [status |-> 0, payload |-> "none"]
NoArgs    == [resume |-> FALSE, limit |-> 0]

Min(a, b) == IF a < b THEN a ELSE b

RECURSIVE SortAsc(_)
SortAsc(S) ==
    IF S = {} THEN <<>>
    ELSE LET m == CHOOSE x \in S : \A y \in S : x <= y
         IN  <<m>> \o SortAsc(S \ {m})

Range(s) == {s[i] : i \in 1..Len(s)}

\* ------------------------------------------------------------- the server
\* A response is [status, payload]; status 0 stands for a
\* requests.RequestException (no response at all).  payload is the kind of
\* body: "dict" a well-formed JSON object, "malformed" an object of another
\* shape, "none" a body that is not JSON.  Of the statuses that the clients
\* neither retry nor treat apart, 403 stands for all.
Resp(s, p) == [status |-> s, payload |-> p]

FailureResponses ==
    {Resp(s, "none") : s \in {0, 401, 403, 404} \cup Retryable}

\* The company register answers the first orgnr of the batch with anything,
\* the next ones up to MaxFaulty with a transient failure or the company,
\* and every other orgnr with the company.
TransientResponses == {Resp(s, "none") : s \in {0} \cup Retryable}

DetailResponses(o) ==
    IF o = 1
    THEN {Resp(200, "dict"), Resp(200, "malformed"), Resp(200, "none")}
         \cup FailureResponses
    ELSE IF o <= MaxFaulty
    THEN {Resp(200, "dict")} \cup TransientResponses
    ELSE {Resp(200, "dict")}

\* The search result set: page p lists the orgnrs p and p+1 and links to
\* page p+1, by an absolute href on odd pages and a relative one on even
\* pages; the last page has no next link.
PageOrgnrs(p) == <<p, p + 1>>

PageNext(p) ==
    IF p >= NumPages THEN NoUrl
    ELSE IF p % 2 = 1 THEN AbsUrl(p + 1) ELSE RelUrl(p + 1)

\* A URL without scheme and host cannot be requested (MissingSchema, a
\* RequestException); any other request can get any response.
SearchResponses(url) ==
    IF url.form = "abs"
    THEN {Resp(200, "dict"), Resp(200, "none")} \cup FailureResponses
    ELSE {Resp(0, "none")}

\* -------------------------------------------------------------- SQL, runs
INSERT_RUN(runs, run_type) ==
    Append(runs, [run_type |-> run_type, status |-> "running",
                  notes |-> "none"])

get_or_create_run_reuse(runs) ==
    IF \E r \in 1..Len(runs) : runs[r].run_type = RUN_TYPE_DETAILS
    THEN LET r == CHOOSE x \in 1..Len(runs) :
                      /\ runs[x].run_type = RUN_TYPE_DETAILS
                      /\ \A y \in 1..Len(runs) :
                            runs[y].run_type = RUN_TYPE_DETAILS => y <= x
         IN  [runs EXCEPT ![r].status = "running"]
    ELSE INSERT_RUN(runs, RUN_TYPE_DETAILS)

\* "Always start a new run for prototype simplicity"
get_or_create_run(runs) == INSERT_RUN(runs, RUN_TYPE_DETAILS)

inserted_run_id_stale(runs) == Len(runs) + 1

\* the run_id handed back by OUTPUT inserted.run_id
inserted_run_id(runs) == Len(runs)

\* UPDATE ... SET status = :status, notes = COALESCE(:notes, notes)
finish_run(runs, rid, status, notes) ==
    [r \in 1..Len(runs) |->
        IF r = rid
        THEN [runs[r] EXCEPT !.status = status,
                             !.notes  = IF notes = "none" THEN @ ELSE notes]
        ELSE runs[r]]

\* ------------------------------------------------------- SQL, checkpoints
CheckpointRow(rid, phase, lo, off, cur) ==
    [run_id |-> rid, phase |-> phase, last_orgnr |-> lo,
     last_offset |-> off, last_cursor |-> cur]

MERGE_CHECKPOINT(cps, row) ==
    {c \in cps : ~(c.run_id = row.run_id /\ c.phase = row.phase)}
    \cup {row}

HasCheckpoint(cps, rid, phase) ==
    \E c \in cps : c.run_id = rid /\ c.phase = phase

TheCheckpoint(cps, rid, phase) ==
    CHOOSE c \in cps : c.run_id = rid /\ c.phase = phase

\* SELECT last_orgnr ... ; row[0] if row else None   (0 is None)
get_checkpoint_last_orgnr(cps, rid) ==
    IF HasCheckpoint(cps, rid, PHASE_DETAILS)
    THEN TheCheckpoint(cps, rid, PHASE_DETAILS).last_orgnr
    ELSE 0

\* SELECT last_cursor ... ; .scalar()   (NoUrl is None)
GET_CHECKPOINT_CURSOR(cps, rid) ==
    IF HasCheckpoint(cps, rid, PHASE_SEARCH)
    THEN TheCheckpoint(cps, rid, PHASE_SEARCH).last_cursor
    ELSE NoUrl

\* ---------------------------------------------------------------- payloads
\* None, of a text field, a value or a column
Null == "null"

\* a or b, of values that are a text or None
Or(a, b) == IF a # Null THEN a ELSE b

\* The JSON body of a detail response: kind "none" is a body that is not
\* JSON, "list" a JSON value that is no object, "dict" an object with
\*   name            a text or None
\*   company         absent, null, a string, or an object with a name
\*   address         null, or a string
\*   isPublicSector  a boolean
\*   companyAccounts, corporateAccounts, annualAccounts
\*                   the view sections: null, a string, or a list of year
\*                   blocks.
\* The keys companyName, naceCode, ... are absent.  Every JSON value is a
\* record with its kind; the fields that a value of its kind does not have
\* are Null or empty.
CompanyValues ==
    {[kind |-> k, name |-> Null] : k \in {"absent", "null", "str"}}
    \cup {[kind |-> "dict", name |-> "B"]}

AddressValues == {[kind |-> "null"], [kind |-> "str"]}

\* an element of "accounts": an object with code, value, amount and
\* currency, or a string.  A value or amount is absent (Null), a number
\* ("0", "5", ...) or a text that is no number ("n/a").
AmountAccount(code, value, amount, currency) ==
    [kind |-> "dict", code |-> code, value |-> value, amount |-> amount,
     currency |-> currency]

\* an element without the key amount
Account(code, value, currency) == AmountAccount(code, value, Null, currency)

StrAccount == [kind |-> "str", code |-> Null, value |-> Null,
               amount |-> Null, currency |-> Null]

AccountLists ==
    {<<>>,
     <<Account("DR", "5", "NOK")>>,
     <<Account("DR", "7", Null)>>,
     <<Account("DR", "n/a", Null)>>,
     <<Account("DR", "5", "NOK"), Account("DR", "7", Null)>>,
     <<Account("DR", "5", "NOK"), Account("SI", "3", Null)>>}

\* the value of "accounts": null, a string, a list of elements (pattern A)
\* or an object of code: value members (pattern B)
NullAccounts == [kind |-> "null", list |-> <<>>]
StrAccounts  == [kind |-> "str", list |-> <<>>]
ListAccounts(list) == [kind |-> "list", list |-> list]
DictAccounts(list) == [kind |-> "dict", list |-> list]

\* the value of "year": null, a number, a string of digits, another string
NullYear   == [kind |-> "null", n |-> 0]
IntYear(n) == [kind |-> "int", n |-> n]
DigitsYear(n) == [kind |-> "digits", n |-> n]
StrYear    == [kind |-> "str", n |-> 0]

\* an element of a view section: an object with year, accounts and
\* currency, or a string
YearBlock(year, accounts, currency) ==
    [kind |-> "dict", year |-> year, accounts |-> accounts,
     currency |-> currency]

StrBlock == [kind |-> "str", year |-> NullYear, accounts |-> NullAccounts,
             currency |-> Null]

\* a view section
NullSection == [kind |-> "null", list |-> <<>>]
StrSection  == [kind |-> "str", list |-> <<>>]
ListSection(list) == [kind |-> "list", list |-> list]

Payload(name, comp, addr, pub, sec_company, sec_corporate, sec_annual) ==
    [kind |-> "dict", name |-> name, company |-> comp, address |-> addr,
     isPublicSector |-> pub, companyAccounts |-> sec_company,
     corporateAccounts |-> sec_corporate, annualAccounts |-> sec_annual]

\* the object whose only view section is the company view, with the one
\* year block of 2024 holding the accounts
DictBody(name, comp, addr, pub, accounts) ==
    Payload(name, comp, addr, pub,
            ListSection(<<YearBlock(IntYear(2024), ListAccounts(accounts),
                                    Null)>>),
            NullSection, NullSection)

OtherBody(kind) ==
    [DictBody(Null, [kind |-> "absent", name |-> Null], [kind |-> "null"],
              FALSE, <<>>) EXCEPT !.kind = kind]

\* the object bodies the writer is exercised with
Bodies ==
    {DictBody(n, c, a, pub, acc) :
        n \in {Null, "A"}, c \in CompanyValues, a \in AddressValues,
        pub \in BOOLEAN, acc \in AccountLists}

\* The body behind the payload tag of a response in the walk: "dict" is a
\* well-formed object, "malformed" an object whose 'company' is a string.
Body(tag, o) ==
    CASE tag = "dict" ->
           DictBody("A", [kind |-> "absent", name |-> Null],
                    [kind |-> "null"], FALSE, <<Account("DR", "5", "NOK")>>)
      [] tag = "malformed" ->
           DictBody(Null, [kind |-> "str", name |-> Null],
                    [kind |-> "null"], FALSE, <<Account("DR", "5", "NOK")>>)
      [] OTHER -> OtherBody(tag)

\* ----------------------------------------------------- SQL, entity tables
\* A table of rows is the sequence of its rows in the order of insertion.
\* The walk keeps, of the company, fact and batch item tables, the keys of
\* their rows (company, proff_financial_item, import_batch_item); the rows
\* themselves are kept where the writer is examined (company_rows,
\* financial_item_rows, batch_item_rows).

load_batch_orgnrs_desc(items) ==
    [i \in 1..Cardinality(items) |->
        SortAsc(items)[Cardinality(items) + 1 - i]]

\* SELECT i.orgnr ... ORDER BY i.orgnr ASC
load_batch_orgnrs(items) == SortAsc(items)

MERGE_RAW_COMPANY_skip(raw, o, status, payload) == raw

\* WHEN MATCHED: UPDATE http_status, payload; WHEN NOT MATCHED: INSERT
MERGE_RAW_COMPANY(raw, o, status, payload) ==
    [raw EXCEPT ![o] = [http_status |-> status, payload |-> payload]]

COALESCE(a, b) == IF a # Null THEN a ELSE b

\* payload.get("company", {}).get("name") and addr.get(...) raise
\* AttributeError on a receiver that is None or a string
map_company_fields_raises(payload) ==
    \/ payload.name = Null /\ payload.company.kind \in {"null", "str"}
    \/ payload.address.kind = "str"

\* the company row of a payload on which the mapper does not raise
map_company_fields(o, payload) ==
    [orgnr            |-> o,
     name             |-> Or(payload.name,
                             IF payload.company.kind = "dict"
                             THEN payload.company.name ELSE Null),
     country_code     |-> "NO",
     is_public_sector |-> IF payload.isPublicSector THEN "1" ELSE "0",
     excluded_reason  |-> IF payload.isPublicSector
                          THEN "public_sector" ELSE Null]

MERGE_COMPANY_overwrite(rows, src) ==
    IF \E i \in 1..Len(rows) : rows[i].orgnr = src.orgnr
    THEN [i \in 1..Len(rows) |->
             IF rows[i].orgnr = src.orgnr THEN src ELSE rows[i]]
    ELSE Append(rows, src)

\* WHEN MATCHED: every field COALESCE(src, tgt); WHEN NOT MATCHED: INSERT
MERGE_COMPANY(rows, src) ==
    IF \E i \in 1..Len(rows) : rows[i].orgnr = src.orgnr
    THEN [i \in 1..Len(rows) |->
             IF rows[i].orgnr = src.orgnr
             THEN [orgnr            |-> rows[i].orgnr,
                   name             |-> COALESCE(src.name, rows[i].name),
                   country_code     |-> COALESCE(src.country_code,
                                                 rows[i].country_code),
                   is_public_sector |-> COALESCE(src.is_public_sector,
                                                 rows[i].is_public_sector),
                   excluded_reason  |-> COALESCE(src.excluded_reason,
                                                 rows[i].excluded_reason)]
             ELSE rows[i]]
    ELSE Append(rows, [src EXCEPT !.is_public_sector = COALESCE(@, "0")])

\* the keys of the company table after MERGE_COMPANY of src
CompanyKeys(keys, src) == keys \cup {src.orgnr}

\* float(val), or None for None and for what is no number
to_decimal(val) == IF val \in {Null, "n/a"} THEN Null ELSE val

\* isinstance(x, list), isinstance(x, dict)
isinstance_list(x) == x.kind = "list"

isinstance_dict_any(x) == TRUE

isinstance_dict(x) == x.kind = "dict"

\* x.get(...) raises AttributeError on what is no object
get_raises(x) == x.kind # "dict"

\* int(year) raises on a string that is no number; the value otherwise
int_raises(year) == year.kind \notin {"int", "digits"}

int(year) == year.n

below_min_year_or_equal(year_int, min_year) == year_int <= min_year

\* if year_int < min_year: continue
below_min_year(year_int, min_year) == year_int < min_year

\* a or b, of values that are a number, a text or None: None and the
\* number 0 are false
or_value(a, b) == IF a \in {Null, "0"} THEN b ELSE a

\* the dict that iter_financial_items yields
Item(year_int, view_name, code, val, currency) ==
    [fiscal_year  |-> year_int,
     account_view |-> view_name,
     code         |-> code,
     value        |-> to_decimal(val),
     currency     |-> currency]

\* Pattern A: for a in accounts
RECURSIVE PatternA(_, _, _)
PatternA(accounts, year_int, view_name) ==
    IF accounts = <<>> THEN <<>>
    ELSE LET a == Head(accounts)
         IN  (IF ~isinstance_dict(a) THEN <<>>
              ELSE IF a.code = Null THEN <<>>
              ELSE <<Item(year_int, view_name, a.code,
                          or_value(a.value, a.amount), a.currency)>>)
             \o PatternA(Tail(accounts), year_int, view_name)

\* Pattern B: for code, val in accounts.items()
PatternB(accounts, year_int, view_name, currency) ==
    [i \in 1..Len(accounts) |->
        Item(year_int, view_name, accounts[i].code, accounts[i].value,
             currency)]

\* the body of `for year_block in items`
YearBlockItems(year_block, view_name, min_year) ==
    IF ~isinstance_dict(year_block) THEN <<>>
    ELSE IF year_block.year.kind = "null" THEN <<>>
    ELSE IF int_raises(year_block.year) THEN <<>>
    ELSE IF below_min_year(int(year_block.year), min_year) THEN <<>>
    ELSE IF year_block.accounts.kind = "null"
            \/ year_block.accounts.list = <<>> THEN <<>>
    ELSE IF isinstance_list(year_block.accounts)
    THEN PatternA(year_block.accounts.list, int(year_block.year), view_name)
    ELSE IF isinstance_dict(year_block.accounts)
    THEN PatternB(year_block.accounts.list, int(year_block.year), view_name,
                  year_block.currency)
    ELSE <<>>

RECURSIVE ViewItems(_, _, _)
ViewItems(items, view_name, min_year) ==
    IF items = <<>> THEN <<>>
    ELSE YearBlockItems(Head(items), view_name, min_year)
         \o ViewItems(Tail(items), view_name, min_year)

\* items = payload.get(view_key) or []; if not isinstance(items, list):
\* continue
SectionItems(section, view_name, min_year) ==
    IF ~isinstance_list(section) THEN <<>>
    ELSE ViewItems(section.list, view_name, min_year)

\* the facts of an object body, in the order they are yielded
iter_financial_items(payload, min_year) ==
    SectionItems(payload.companyAccounts, "company", min_year)
    \o SectionItems(payload.corporateAccounts, "corporate", min_year)
    \o SectionItems(payload.annualAccounts, "annual", min_year)

\* the statements of iter_financial_items that raise when they are reached
\* with a value of another type: year_block.get and a.get
YearBlockRaises(year_block) ==
    /\ isinstance_dict(year_block)
    /\ \/ get_raises(year_block)
       \/ /\ isinstance_list(year_block.accounts)
          /\ \E i \in 1..Len(year_block.accounts.list) :
                /\ isinstance_dict(year_block.accounts.list[i])
                /\ get_raises(year_block.accounts.list[i])

iter_financial_items_raises(payload) ==
    \E section \in {payload.companyAccounts, payload.corporateAccounts,
                    payload.annualAccounts} :
        /\ isinstance_list(section)
        /\ \E i \in 1..Len(section.list) : YearBlockRaises(section.list[i])

\* min_year = datetime.now().year - HISTORY_YEARS
\* datetime.now().year
now_year == 2026
main_min_year == now_year - HISTORY_YEARS

\* item["orgnr"] = orgnr  # enforce
FinItem(o, item) ==
    [orgnr |-> o, fiscal_year |-> item.fiscal_year,
     account_view |-> item.account_view, code |-> item.code,
     value |-> item.value, currency |-> item.currency]

\* ON tgt.orgnr = src.orgnr AND tgt.fiscal_year = src.fiscal_year AND ...
FactKey(row) == <<row.orgnr, row.fiscal_year, row.account_view, row.code>>

MERGE_FIN_ITEM_insert(rows, src) == Append(rows, src)

MERGE_FIN_ITEM_coalesce(rows, src) ==
    IF \E i \in 1..Len(rows) : FactKey(rows[i]) = FactKey(src)
    THEN [i \in 1..Len(rows) |->
             IF FactKey(rows[i]) = FactKey(src)
             THEN [rows[i] EXCEPT !.value = COALESCE(src.value, @),
                                  !.currency = COALESCE(src.currency, @)]
             ELSE rows[i]]
    ELSE Append(rows, src)

\* WHEN MATCHED: value = src.value, currency = COALESCE(src.currency,
\* tgt.currency); WHEN NOT MATCHED: INSERT
MERGE_FIN_ITEM(rows, src) ==
    IF \E i \in 1..Len(rows) : FactKey(rows[i]) = FactKey(src)
    THEN [i \in 1..Len(rows) |->
             IF FactKey(rows[i]) = FactKey(src)
             THEN [rows[i] EXCEPT !.value = src.value,
                                  !.currency = COALESCE(src.currency, @)]
             ELSE rows[i]]
    ELSE Append(rows, src)

\* for item in iter_financial_items(payload, ...): MERGE_FIN_ITEM
RECURSIVE MergeFinItems(_, _, _)
MergeFinItems(rows, o, list) ==
    IF list = <<>> THEN rows
    ELSE MergeFinItems(MERGE_FIN_ITEM(rows, FinItem(o, Head(list))), o,
                       Tail(list))

\* the keys of the fact table after the MERGE_FIN_ITEM of every item
FinItemKeys(keys, o, list) ==
    keys \cup {FactKey(FinItem(o, list[i])) : i \in 1..Len(list)}

\* a plain INSERT in the place of the MERGE
MERGE_BATCH_ITEM_insert(rows, src) == Append(rows, src)

\* WHEN MATCHED: include_reason = COALESCE(src, tgt); WHEN NOT MATCHED: INSERT
MERGE_BATCH_ITEM(rows, src) ==
    IF \E i \in 1..Len(rows) : rows[i].orgnr = src.orgnr
    THEN [i \in 1..Len(rows) |->
             IF rows[i].orgnr = src.orgnr
             THEN [rows[i] EXCEPT !.include_reason =
                                      COALESCE(src.include_reason, @)]
             ELSE rows[i]]
    ELSE Append(rows, src)

\* {"batch_id": batch_id, "orgnr": orgnr, "include_reason": f"{code}>=..."}
BatchItem(o) == [orgnr |-> o, include_reason |-> "DR>=min"]

\* for orgnr in orgnrs: MERGE_BATCH_ITEM
RECURSIVE MergeBatchItems(_, _)
MergeBatchItems(rows, list) ==
    IF list = <<>> THEN rows
    ELSE MergeBatchItems(MERGE_BATCH_ITEM(rows, BatchItem(Head(list))),
                         Tail(list))

\* the keys of the batch item table after the MERGE_BATCH_ITEM of every orgnr
BatchItemKeys(keys, list) ==
    keys \cup {BatchItem(list[i]).orgnr : i \in 1..Len(list)}

\* ------------------------------------------------------------ transactions
engine_begin_autocommit(before, after, committed) == after

\* with engine.begin() as conn: the block commits when it is left normally;
\* an exception, or the end of the process, rolls it back
engine_begin(before, after, committed) ==
    IF committed THEN after ELSE before

\* the three entity tables
EntityTables(raw, rows, facts) ==
    [raw |-> raw, company |-> rows, facts |-> facts]

Normalizable_status_only(status, body) == status = 200

\* if status == 200 and isinstance(payload, dict)
Normalizable(status, body) == status = 200 /\ body.kind = "dict"

EntityRaises(status, body) ==
    Normalizable(status, body) /\ map_company_fields_raises(body)

\* the statements of the entity block that are executed: the raw row, and
\* for an object body the company row and one statement per fact, unless
\* the mapper raises
EntityStatements(status, body) ==
    IF ~Normalizable(status, body) \/ EntityRaises(status, body) THEN 1
    ELSE 2 + Len(iter_financial_items(body, main_min_year))

\* the tables as the block sees them after its first k statements
EntityWrites(db, o, status, tag, body, k) ==
    LET items == iter_financial_items(body, main_min_year)
    IN  EntityTables(
            IF k >= 1 THEN MERGE_RAW_COMPANY(db.raw, o, status, tag)
            ELSE db.raw,
            IF k >= 2 THEN MERGE_COMPANY(db.company, map_company_fields(o, body))
            ELSE db.company,
            IF k >= 3
            THEN MergeFinItems(db.facts, o, SubSeq(items, 1, k - 2))
            ELSE db.facts)

\* the entity block, left after k of its statements: committed when all of
\* them ran and the mapper did not raise
EntityTx(db, o, status, tag, body, k) ==
    engine_begin(db, EntityWrites(db, o, status, tag, body, k),
                 k = EntityStatements(status, body)
                     /\ ~EntityRaises(status, body))

\* the tables of the page block: batch items and checkpoints
PageTables(items, cps) == [items |-> items, checkpoints |-> cps]

\* the page block after its first k statements: one MERGE_BATCH_ITEM per
\* orgnr of the page, then MERGE_CHECKPOINT
PageWrites(db, list, row, k) ==
    PageTables(
        MergeBatchItems(db.items, SubSeq(list, 1, Min(k, Len(list)))),
        IF k > Len(list) THEN MERGE_CHECKPOINT(db.checkpoints, row)
        ELSE db.checkpoints)

PageTx(db, list, row, k) ==
    engine_begin(db, PageWrites(db, list, row, k), k = Len(list) + 1)

\* ------------------------------------------------------------------ Init
Orgnrs == 1..NumOrgnrs

\* the state of the store and of the process before any execution
InitProgram ==
    /\ ingestion_run = <<>>
    /\ ingestion_checkpoint = {}
    /\ import_batch_item \in {{}, Orgnrs}
    /\ proff_raw_company = [o \in Orgnrs |-> NoRaw]
    /\ company = {}
    /\ proff_financial_item = {}
    /\ pc = "idle"
    /\ job \in {"details", "search"}
    /\ args = NoArgs
    /\ run_id = 0
    /\ orgnrs = <<>>
    /\ processed = 0
    /\ orgnr = 0
    /\ next_url = NoUrl
    /\ page = 0
    /\ last_orgnr = 0
    /\ attempt = 0
    /\ requests = 0
    /\ result = NoResult
    /\ execs = 0
    /\ kills = 0
    /\ outcome = "none"
    /\ error = "none"
    /\ fetched = <<>>
    /\ written = {}
    /\ prior = {}
    /\ auth_seen = 0
    /\ company_rows = <<>>
    /\ financial_item_rows = <<>>
    /\ batch_item_rows = <<>>
    /\ variant = 0
    /\ last_exc = "none"
    /\ workers = <<>>

\* no call of the normalizer
NoInput == [payload |-> OtherBody("none"), min_year |-> main_min_year]
NotRun  == [done |-> FALSE, raised |-> FALSE, items |-> <<>>]

Init ==
    /\ InitProgram
    /\ sleeps = <<>>
    /\ tx_open = FALSE
    /\ input = NoInput
    /\ yielded = NotRun

idvars   == <<job, args, run_id>>
walkvars == <<orgnrs, processed, orgnr, next_url, page, last_orgnr>>
httpvars == <<attempt, requests, result>>
\* the locals that end with the process
endvars  == <<orgnr, next_url, page, last_orgnr, attempt, requests, result>>

\* a process starts: fresh locals, and a note of what the store held
StartProcess(j, a) ==
    /\ UNCHANGED sidevars
    /\ pc = "idle"
    /\ job = j
    /\ execs < MaxExecs
    /\ execs' = execs + 1
    /\ args' = a
    /\ run_id' = 0
    /\ orgnrs' = <<>>
    /\ processed' = 0
    /\ orgnr' = 0
    /\ next_url' = NoUrl
    /\ page' = 0
    /\ last_orgnr' = 0
    /\ attempt' = 0
    /\ requests' = 0
    /\ result' = NoResult
    /\ outcome' = "running"
    /\ error' = "none"
    /\ fetched' = <<>>
    /\ written' = {}
    /\ prior' = {o \in Orgnrs : proff_raw_company[o].http_status # 0}
    /\ auth_seen' = 0
    /\ UNCHANGED <<dbvars, kills, job>>

\* the process ends, by return or by the exception e leaving main(); the
\* locals of the request in flight end with it
Exit(how, e) ==
    /\ pc' = "idle"
    /\ outcome' = how
    /\ error' = e
    /\ orgnr' = 0
    /\ next_url' = NoUrl
    /\ page' = 0
    /\ last_orgnr' = 0
    /\ attempt' = 0
    /\ requests' = 0
    /\ result' = NoResult

\* an exception e is raised inside main's try block
Raise(e) ==
    /\ pc' = IF job = "details" THEN "d_except" ELSE "s_except"
    /\ error' = e

\* =================================================== proff_backfill_details
Limits == {0, 2}

\* main(): argument parsing
StartDetails ==
    \E resume \in BOOLEAN, limit \in Limits :
        /\ StartProcess("details",
               [resume |-> resume, limit |-> limit])
        /\ pc' = "d_create"

\* with engine.begin(): run_id = get_or_create_run(...); orgnrs = load_batch_orgnrs(...)
DetailsCreateRun ==
    /\ UNCHANGED sidevars
    /\ pc = "d_create"
    /\ ingestion_run' = get_or_create_run(ingestion_run)
    /\ run_id' = inserted_run_id(ingestion_run')
    /\ orgnrs' = load_batch_orgnrs(import_batch_item)
    /\ pc' = "d_resume"
    /\ UNCHANGED <<ingestion_checkpoint, import_batch_item, proff_raw_company,
                   company, proff_financial_item>>
    /\ UNCHANGED <<job, args, processed, endvars>>
    /\ UNCHANGED obsvars

\* if start_after: orgnrs = [o for o in orgnrs if o > start_after]
ResumeFilter(list, start_after) ==
    IF start_after # 0
    THEN SelectSeq(list, LAMBDA o : o > start_after)
    ELSE list

\* if args.limit: orgnrs = orgnrs[: args.limit]
LimitFilter(list, limit) ==
    IF limit # 0 THEN SubSeq(list, 1, Min(limit, Len(list))) ELSE list

\* for orgnr in orgnrs, entered with n of the list processed: the next
\* orgnr and the call of client.get_company_details(orgnr), or the end of
\* the loop
DetailsLoop(list, n) ==
    IF n < Len(list)
    THEN /\ orgnr' = list[n + 1]
         /\ fetched' = Append(fetched, list[n + 1])
         /\ attempt' = 0
         /\ requests' = 0
         /\ auth_seen' = 0
         /\ pc' = "d_http"
    ELSE /\ pc' = "d_finish"
         /\ attempt' = 0
         /\ requests' = 0
         /\ UNCHANGED <<orgnr, fetched, auth_seen>>

\* resume point, resume filter, limit; the loop is entered
DetailsResume ==
    /\ UNCHANGED sidevars
    /\ pc = "d_resume"
    /\ LET start_after == IF args.resume
                          THEN get_checkpoint_last_orgnr(ingestion_checkpoint, run_id)
                          ELSE 0
       IN  orgnrs' = LimitFilter(ResumeFilter(orgnrs, start_after), args.limit)
    /\ processed' = 0
    /\ DetailsLoop(orgnrs', 0)
    /\ UNCHANGED dbvars
    /\ UNCHANGED <<idvars, next_url, page, last_orgnr, result>>
    /\ UNCHANGED <<execs, kills, outcome, error, written, prior>>

RetryLoopOneMore(a) == a <= MAX_RETRIES

\* for attempt in range(MAX_RETRIES)
RetryLoopContinues(a) == a < MAX_RETRIES

\* what get_company_details does with one response
DetailsDispositionNo401(r) ==
    IF r.status = 0 \/ r.status \in Retryable THEN "retry"
    ELSE "return"

DetailsDispositionRaiseForStatus(r) ==
    IF r.status = 0 THEN "retry"
    ELSE IF r.status = 401 THEN "raise"
    ELSE IF r.status \in Retryable THEN "retry"
    ELSE IF r.status >= 400 THEN "raise_for_status"
    ELSE "return"

DetailsDisposition(r) ==
    IF r.status = 0 THEN "retry"
    ELSE IF r.status = 401 THEN "raise"
    ELSE IF r.status \in Retryable THEN "retry"
    ELSE "return"

\* the tuple get_company_details returns for a response it does not retry
DetailsReturn(r) ==
    IF r.status = 404 THEN Resp(404, "none")
    ELSE IF r.status >= 400 THEN Resp(r.status, "none")
    ELSE Resp(200, r.payload)

\* Exhausted retries
DetailsExhausted == Resp(599, "none")

NoteAuth(r) == IF r.status \in {401, 403} THEN r.status ELSE auth_seen

\* ProffClient.get_company_details: one pass of the retry loop
GetCompanyDetails ==
    /\ UNCHANGED sidevars
    /\ pc = "d_http"
    /\ IF RetryLoopContinues(attempt)
       THEN \E r \in DetailResponses(orgnr) :
               /\ requests' = requests + 1
               /\ auth_seen' = NoteAuth(r)
               /\ CASE DetailsDisposition(r) = "retry" ->
                         /\ attempt' = attempt + 1
                         /\ UNCHANGED <<pc, result, error>>
                    [] DetailsDisposition(r) = "raise" ->
                         /\ Raise("RuntimeError")
                         /\ attempt' = 0
                         /\ UNCHANGED result
                    [] DetailsDisposition(r) = "raise_for_status" ->
                         /\ Raise("HTTPError")
                         /\ attempt' = 0
                         /\ UNCHANGED result
                    [] OTHER ->
                         /\ result' = DetailsReturn(r)
                         /\ pc' = "d_store"
                         /\ attempt' = 0
                         /\ UNCHANGED error
       ELSE /\ result' = DetailsExhausted
            /\ pc' = "d_store"
            /\ attempt' = 0
            /\ UNCHANGED <<requests, auth_seen, error>>
    /\ UNCHANGED dbvars
    /\ UNCHANGED <<idvars, walkvars>>
    /\ UNCHANGED <<execs, kills, outcome, fetched, written, prior>>

\* if processed % CHECKPOINT_EVERY_N == 0
CheckpointDue(n) == n % CHECKPOINT_EVERY_N = 0

\* with engine.begin(): raw row, company row, financial items; processed += 1;
\* then the checkpoint if one is due, else the next pass of the loop.  An
\* exception of the mapper leaves the block, which is rolled back.
DetailsStore ==
    /\ UNCHANGED sidevars
    /\ pc = "d_store"
    /\ IF EntityRaises(result.status, Body(result.payload, orgnr))
       THEN /\ Raise("AttributeError")
            /\ requests' = 0
            /\ UNCHANGED <<proff_raw_company, company, proff_financial_item>>
            /\ UNCHANGED <<written, processed, orgnr, fetched, attempt,
                           auth_seen>>
       ELSE /\ proff_raw_company' =
                  MERGE_RAW_COMPANY(proff_raw_company, orgnr, result.status,
                                    result.payload)
            /\ IF Normalizable(result.status, Body(result.payload, orgnr))
               THEN /\ company' =
                          CompanyKeys(company,
                              map_company_fields(orgnr,
                                  Body(result.payload, orgnr)))
                    /\ proff_financial_item' =
                          FinItemKeys(proff_financial_item, orgnr,
                              iter_financial_items(Body(result.payload, orgnr),
                                                   main_min_year))
               ELSE UNCHANGED <<company, proff_financial_item>>
            /\ written' = written \cup {orgnr}
            /\ processed' = processed + 1
            /\ IF CheckpointDue(processed')
               THEN /\ pc' = "d_ckpt"
                    /\ requests' = 0
                    /\ UNCHANGED <<orgnr, fetched, attempt, auth_seen>>
               ELSE DetailsLoop(orgnrs, processed')
            /\ UNCHANGED error
    /\ result' = NoResult
    /\ UNCHANGED <<ingestion_run, ingestion_checkpoint, import_batch_item>>
    /\ UNCHANGED <<idvars, orgnrs, next_url, page, last_orgnr>>
    /\ UNCHANGED <<execs, kills, outcome, prior>>

\* with engine.begin(): MERGE_CHECKPOINT; then the next pass of the loop
DetailsCheckpoint ==
    /\ UNCHANGED sidevars
    /\ pc = "d_ckpt"
    /\ ingestion_checkpoint' =
          MERGE_CHECKPOINT(ingestion_checkpoint,
              CheckpointRow(run_id, PHASE_DETAILS, orgnr, processed, NoUrl))
    /\ DetailsLoop(orgnrs, processed)
    /\ UNCHANGED <<ingestion_run, import_batch_item, proff_raw_company,
                   company, proff_financial_item>>
    /\ UNCHANGED <<idvars, orgnrs, processed, next_url, page, last_orgnr, result>>
    /\ UNCHANGED <<execs, kills, outcome, error, written, prior>>

\* with engine.begin(): finish_run(conn, run_id, "succeeded", ...)
DetailsFinish ==
    /\ UNCHANGED sidevars
    /\ pc = "d_finish"
    /\ ingestion_run' = finish_run(ingestion_run, run_id, "succeeded", "Processed")
    /\ Exit("returned", "none")
    /\ UNCHANGED <<ingestion_checkpoint, import_batch_item, proff_raw_company,
                   company, proff_financial_item>>
    /\ UNCHANGED <<idvars, orgnrs, processed>>
    /\ UNCHANGED <<execs, kills, fetched, written, prior, auth_seen>>

\* except Exception as e: finish_run(conn, run_id, "failed", ...); raise
DetailsExcept ==
    /\ UNCHANGED sidevars
    /\ pc = "d_except"
    /\ ingestion_run' = finish_run(ingestion_run, run_id, "failed", "Error")
    /\ Exit("raised", error)
    /\ UNCHANGED <<ingestion_checkpoint, import_batch_item, proff_raw_company,
                   company, proff_financial_item>>
    /\ UNCHANGED <<idvars, orgnrs, processed>>
    /\ UNCHANGED <<execs, kills, fetched, written, prior, auth_seen>>

DetailsNext ==
    \/ StartDetails
    \/ DetailsCreateRun
    \/ DetailsResume
    \/ GetCompanyDetails
    \/ DetailsStore
    \/ DetailsCheckpoint
    \/ DetailsFinish
    \/ DetailsExcept

\* ============================================== proff_build_batch_ebit2024
LimitPages    == {0, 1}
AccountsViews == {"company", "annual"}    \* values of PROFF_ACCOUNTS_VIEW

\* test_url and start_url
TestUrl  == AbsUrl(0)
StartUrl == AbsUrl(1)

\* The JSON body of a search response, an object:
\*   lists  the values under the keys of CandidateKeys, each absent
\*          (NullSection), no list (StrSection) or a list of elements
\*          (ListSection)
\*   next   pagination.next.href, or NoUrl
\* An element of a list is a string or an object with ids, the values under
\* the keys of IdKeys.  A value under an ID key is absent or null (kind
\* "null"), a number or a text; str(x) has `digits` digits, which write the
\* orgnr n.
CandidateKeys == <<"companies", "results", "items", "hits", "entities">>
IdKeys ==
    <<"organisationNumber", "organizationNumber", "orgnr", "id", "businessId">>

IdValue(kind, digits, n) == [kind |-> kind, digits |-> digits, n |-> n]

\* an object with the ID keys of the record given, and no other
Entry(given) ==
    [kind |-> "dict",
     ids  |-> [k \in Range(IdKeys) |->
                  IF k \in DOMAIN given THEN given[k]
                  ELSE IdValue("null", 0, 0)]]

StrEntry == [kind |-> "str", ids |-> Entry(<<>>).ids]

\* an object with the candidate keys of the record given, and no other
SearchBody(given, next) ==
    [lists |-> [k \in Range(CandidateKeys) |->
                   IF k \in DOMAIN given THEN given[k] ELSE NullSection],
     next  |-> next]

\* the body of page p of the result set
ServerPage(p) ==
    SearchBody(
        [companies |->
            ListSection([i \in 1..Len(PageOrgnrs(p)) |->
                Entry([organisationNumber |->
                          IdValue("str", 9, PageOrgnrs(p)[i])])])],
        PageNext(p))

normalize_orgnr_any(x) == x.n

\* the digits of str(x) if they are nine, else None (0); None for None
normalize_orgnr(x) ==
    IF x.kind = "null" THEN 0
    ELSE IF x.digits = 9 THEN x.n ELSE 0

\* for key in (...): if isinstance(data.get(key), list): candidates = data[key]; break
RECURSIVE Candidates(_, _)
Candidates(data, keys) ==
    IF keys = <<>> THEN <<>>
    ELSE IF isinstance_list(data.lists[Head(keys)])
    THEN data.lists[Head(keys)].list
    ELSE Candidates(data, Tail(keys))

\* for k in (...): orgnr = normalize_orgnr(c.get(k)); if orgnr: ...; break
RECURSIVE EntryOrgnr(_, _)
EntryOrgnr(c, keys) ==
    IF keys = <<>> THEN 0
    ELSE IF normalize_orgnr(c.ids[Head(keys)]) # 0
    THEN normalize_orgnr(c.ids[Head(keys)])
    ELSE EntryOrgnr(c, Tail(keys))

\* for c in candidates: the orgnrs appended
RECURSIVE CandidateOrgnrs(_)
CandidateOrgnrs(candidates) ==
    IF candidates = <<>> THEN <<>>
    ELSE (IF ~isinstance_dict(Head(candidates)) THEN <<>>
          ELSE IF EntryOrgnr(Head(candidates), IdKeys) = 0 THEN <<>>
          ELSE <<EntryOrgnr(Head(candidates), IdKeys)>>)
         \o CandidateOrgnrs(Tail(candidates))

\* de-dupe preserving order
RECURSIVE Dedupe(_, _)
Dedupe(list, seen) ==
    IF list = <<>> THEN <<>>
    ELSE IF Head(list) \in seen THEN Dedupe(Tail(list), seen)
    ELSE <<Head(list)>> \o Dedupe(Tail(list), seen \cup {Head(list)})

\* the orgnrs of the first list found in the body, without duplicates
extract_orgnrs_from_search_response(data) ==
    Dedupe(CandidateOrgnrs(Candidates(data, CandidateKeys)), {})

\* c.get(k) raises AttributeError on an element that is no object
extract_orgnrs_from_search_response_raises(data) ==
    \E c \in Range(Candidates(data, CandidateKeys)) :
        isinstance_dict(c) /\ get_raises(c)

\* a reader that finds no next link in any page
get_next_href_none(data) == NoUrl

\* pagination.next.href, or None
get_next_href(data) == data.next

\* href if href.startswith("http") else urljoin(DEFAULT_PROFF_BASE_URL, href)
ResolveHref(href) == IF href.form = "rel" THEN AbsUrl(href.page) ELSE href

\* main(): argument parsing, then the call of the auth test request
StartSearch ==
    \E resume \in BOOLEAN, limit \in LimitPages :
        /\ StartProcess("search", [resume |-> resume, limit |-> limit])
        /\ pc' = "s_auth"

\* the URL of the request in flight
RequestUrl == IF pc = "s_auth" THEN TestUrl ELSE next_url

\* the pc get returns to
ReturnSite == CASE pc = "s_auth"  -> "s_auth_ret"
                [] pc = "s_probe" -> "s_probe_ret"
                [] OTHER          -> "s_page_ret"

GetRetriesStatusOnly(r) == r.status \in Retryable

\* get retries a network error and the retryable statuses
GetRetries(r) == r.status = 0 \/ r.status \in Retryable

\* ProffClient.get: one pass of the retry loop, or the final attempt
\* ("no swallow"); main's try block covers the page loop only
Get ==
    /\ UNCHANGED sidevars
    /\ pc \in {"s_auth", "s_probe", "s_page"}
    /\ \E r \in SearchResponses(RequestUrl) :
          /\ auth_seen' = NoteAuth(r)
          /\ IF RetryLoopContinues(attempt) /\ GetRetries(r)
             THEN /\ attempt' = attempt + 1
                  /\ requests' = requests + 1
                  /\ UNCHANGED <<pc, result, outcome, error, orgnr, next_url,
                                 page, last_orgnr>>
             ELSE IF r.status = 0
             THEN IF pc = "s_page"
                  THEN /\ Raise("RequestException")
                       /\ requests' = requests + 1
                       /\ attempt' = 0
                       /\ UNCHANGED <<result, outcome, orgnr, next_url,
                                      page, last_orgnr>>
                  ELSE Exit("raised", "RequestException")
             ELSE /\ result' = r
                  /\ requests' = requests + 1
                  /\ attempt' = 0
                  /\ pc' = ReturnSite
                  /\ UNCHANGED <<outcome, error, orgnr, next_url, page,
                                 last_orgnr>>
    /\ UNCHANGED dbvars
    /\ UNCHANGED <<idvars, orgnrs, processed>>
    /\ UNCHANGED <<execs, kills, fetched, written, prior>>

\* if r.status_code == 401: raise SystemExit(...)
SearchAuthRet ==
    /\ UNCHANGED sidevars
    /\ pc = "s_auth_ret"
    /\ IF result.status = 401
       THEN /\ Exit("raised", "SystemExit")
            /\ UNCHANGED auth_seen
       ELSE /\ pc' = "s_create"
            /\ result' = NoResult
            /\ requests' = 0
            /\ auth_seen' = 0
            /\ UNCHANGED <<outcome, error, orgnr, next_url, page,
                           last_orgnr, attempt>>
    /\ UNCHANGED dbvars
    /\ UNCHANGED <<idvars, orgnrs, processed>>
    /\ UNCHANGED <<execs, kills, fetched, written, prior>>

\* with engine.begin(): MERGE_IMPORT_BATCH, GET_BATCH_ID, INSERT_RUN
SearchCreateRun ==
    /\ UNCHANGED sidevars
    /\ pc = "s_create"
    /\ ingestion_run' = INSERT_RUN(ingestion_run, RUN_TYPE_SEARCH)
    /\ run_id' = inserted_run_id(ingestion_run')
    /\ pc' = "s_build"
    /\ UNCHANGED <<ingestion_checkpoint, import_batch_item, proff_raw_company,
                   company, proff_financial_item>>
    /\ UNCHANGED <<job, args, walkvars, httpvars>>
    /\ UNCHANGED obsvars

\* accounts_view = os.getenv(...) and its check, start_url, and the call of
\* the probe request
SearchBuildRequest ==
    /\ UNCHANGED sidevars
    /\ pc = "s_build"
    /\ \E accounts_view \in AccountsViews :
          IF accounts_view \notin {"company", "corporate"}
          THEN /\ Exit("raised", "SystemExit")
               /\ UNCHANGED auth_seen
          ELSE /\ next_url' = StartUrl
               /\ attempt' = 0
               /\ requests' = 0
               /\ auth_seen' = 0
               /\ pc' = "s_probe"
               /\ UNCHANGED <<outcome, error, orgnr, page, last_orgnr, result>>
    /\ UNCHANGED dbvars
    /\ UNCHANGED <<idvars, orgnrs, processed>>
    /\ UNCHANGED <<execs, kills, fetched, written, prior>>

\* if probe.status_code != 200: raise SystemExit(...)
SearchProbeRet ==
    /\ UNCHANGED sidevars
    /\ pc = "s_probe_ret"
    /\ IF result.status # 200
       THEN Exit("raised", "SystemExit")
       ELSE /\ pc' = "s_resume"
            /\ result' = NoResult
            /\ requests' = 0
            /\ UNCHANGED <<outcome, error, orgnr, next_url, page,
                           last_orgnr, attempt>>
    /\ UNCHANGED dbvars
    /\ UNCHANGED <<idvars, orgnrs, processed>>
    /\ UNCHANGED <<execs, kills, fetched, written, prior, auth_seen>>

\* if args.resume: cur = GET_CHECKPOINT_CURSOR; if cur: next_url = cur
SearchResume ==
    /\ UNCHANGED sidevars
    /\ pc = "s_resume"
    /\ LET cur == IF args.resume
                  THEN GET_CHECKPOINT_CURSOR(ingestion_checkpoint, run_id)
                  ELSE NoUrl
       IN  next_url' = IF cur # NoUrl THEN cur ELSE next_url
    /\ page' = 0
    /\ last_orgnr' = 0
    /\ pc' = "s_loop"
    /\ UNCHANGED dbvars
    /\ UNCHANGED <<idvars, orgnrs, processed, orgnr, httpvars>>
    /\ UNCHANGED obsvars

\* while next_url: page += 1; limit check; the call of client.get(next_url)
SearchLoop ==
    /\ UNCHANGED sidevars
    /\ pc = "s_loop"
    /\ IF next_url # NoUrl
       THEN /\ page' = page + 1
            /\ IF args.limit # 0 /\ page' > args.limit
               THEN /\ pc' = "s_finish"
                    /\ UNCHANGED <<attempt, requests, fetched, auth_seen>>
               ELSE /\ attempt' = 0
                    /\ requests' = 0
                    /\ auth_seen' = 0
                    /\ fetched' = Append(fetched, next_url.page)
                    /\ pc' = "s_page"
       ELSE /\ pc' = "s_finish"
            /\ UNCHANGED <<page, attempt, requests, fetched, auth_seen>>
    /\ UNCHANGED dbvars
    /\ UNCHANGED <<idvars, orgnrs, processed, orgnr, next_url, last_orgnr, result>>
    /\ UNCHANGED <<execs, kills, outcome, error, written, prior>>

\* a check that lets every response pass
ok_always(r) == TRUE

\* requests.Response.ok: the status is below 400
ok(r) == r.status < 400

\* one page: if not r.ok: raise RuntimeError; data = r.json(); batch items
\* and the checkpoint in one transaction; next_url
SearchStorePage ==
    /\ UNCHANGED sidevars
    /\ pc = "s_page_ret"
    /\ IF ~ok(result)
       THEN /\ Raise("RuntimeError")
            /\ UNCHANGED <<import_batch_item, ingestion_checkpoint, orgnrs,
                           last_orgnr, next_url, written>>
       ELSE IF result.payload # "dict"
       THEN /\ Raise("ValueError")
            /\ UNCHANGED <<import_batch_item, ingestion_checkpoint, orgnrs,
                           last_orgnr, next_url, written>>
       ELSE LET data  == ServerPage(next_url.page)
                list  == extract_orgnrs_from_search_response(data)
                last  == IF list # <<>> THEN list[Len(list)] ELSE last_orgnr
                href  == get_next_href(data)
            IN  /\ orgnrs' = list
                /\ last_orgnr' = last
                /\ import_batch_item' = BatchItemKeys(import_batch_item, list)
                /\ ingestion_checkpoint' =
                      MERGE_CHECKPOINT(ingestion_checkpoint,
                          CheckpointRow(run_id, PHASE_SEARCH, last, page, href))
                /\ written' = written \cup Range(list)
                /\ next_url' = IF href # NoUrl THEN ResolveHref(href) ELSE NoUrl
                /\ pc' = "s_loop"
                /\ UNCHANGED error
    /\ result' = NoResult
    /\ requests' = 0
    /\ UNCHANGED <<ingestion_run, proff_raw_company, company, proff_financial_item>>
    /\ UNCHANGED <<idvars, processed, orgnr, page, attempt>>
    /\ UNCHANGED <<execs, kills, outcome, fetched, prior, auth_seen>>

\* with engine.begin(): FINISH_RUN succeeded
SearchFinish ==
    /\ UNCHANGED sidevars
    /\ pc = "s_finish"
    /\ ingestion_run' = finish_run(ingestion_run, run_id, "succeeded", "Inserted")
    /\ Exit("returned", "none")
    /\ UNCHANGED <<ingestion_checkpoint, import_batch_item, proff_raw_company,
                   company, proff_financial_item>>
    /\ UNCHANGED <<idvars, orgnrs, processed>>
    /\ UNCHANGED <<execs, kills, fetched, written, prior, auth_seen>>

\* except Exception as e: FINISH_RUN failed; raise
SearchExcept ==
    /\ UNCHANGED sidevars
    /\ pc = "s_except"
    /\ ingestion_run' = finish_run(ingestion_run, run_id, "failed", "Error")
    /\ Exit("raised", error)
    /\ UNCHANGED <<ingestion_checkpoint, import_batch_item, proff_raw_company,
                   company, proff_financial_item>>
    /\ UNCHANGED <<idvars, orgnrs, processed>>
    /\ UNCHANGED <<execs, kills, fetched, written, prior, auth_seen>>

SearchNext ==
    \/ StartSearch
    \/ Get
    \/ SearchAuthRet
    \/ SearchCreateRun
    \/ SearchBuildRequest
    \/ SearchProbeRet
    \/ SearchResume
    \/ SearchLoop
    \/ SearchStorePage
    \/ SearchFinish
    \/ SearchExcept

\* ===================================================================== kill
\* the process is killed between two steps; nothing of it is left but the
\* committed rows
Kill ==
    /\ UNCHANGED sidevars
    /\ pc # "idle"
    /\ kills < MaxKills
    /\ kills' = kills + 1
    /\ Exit("killed", "none")
    /\ args' = NoArgs
    /\ run_id' = 0
    /\ orgnrs' = <<>>
    /\ processed' = 0
    /\ fetched' = <<>>
    /\ written' = {}
    /\ auth_seen' = 0
    /\ UNCHANGED <<dbvars, job>>
    /\ UNCHANGED <<execs, prior>>

Next ==
    \/ DetailsNext
    \/ SearchNext
    \/ Kill

Spec == Init /\ [][Next]_vars

\* ============================================================== the writer
\* The two blocks that write entity rows, on the rows themselves.  The
\* entity block is given any result of get_company_details for the first
\* orgnr, the page block any page of the search; each is left after any
\* number of its statements (the process ends, or the mapper raises).
WriterResults ==
    {[status |-> 200, body |-> b] :
        b \in Bodies \cup {OtherBody("none"), OtherBody("list")}}
    \cup {[status |-> st, body |-> OtherBody("none")] : st \in {403, 404, 599}}

\* how the block was left
BlockOutcome(k, n, raises) ==
    IF k < n THEN "killed" ELSE IF raises THEN "raised" ELSE "returned"

WriterEntity ==
    /\ pc = "idle"
    /\ job = "details"
    /\ \E r \in WriterResults :
          \E k \in 0..EntityStatements(r.status, r.body) :
             \E after \in {EntityTx(EntityTables(proff_raw_company,
                                       company_rows, financial_item_rows),
                                   1, r.status, r.body.kind, r.body, k)} :
                 /\ proff_raw_company' = after.raw
                 /\ company_rows' = after.company
                 /\ financial_item_rows' = after.facts
                 /\ outcome' = BlockOutcome(k,
                                   EntityStatements(r.status, r.body),
                                   EntityRaises(r.status, r.body))
                 /\ error' = IF outcome' = "raised"
                             THEN "AttributeError" ELSE "none"
    /\ UNCHANGED <<ingestion_run, ingestion_checkpoint, import_batch_item,
                   company, proff_financial_item, batch_item_rows>>
    /\ UNCHANGED <<procvars, clientvars, normvars, brregvars, runsvars>>
    /\ UNCHANGED <<execs, kills, fetched, written, prior, auth_seen>>

\* the lists extract_orgnrs_from_search_response hands to the page block
PageLists == {<<>>, <<1>>, <<2>>, <<1, 2>>, <<2, 1>>}

\* the values of pagination.next.href
PageCursors == {NoUrl, AbsUrl(2), RelUrl(2)}

WriterPage ==
    /\ pc = "idle"
    /\ job = "search"
    /\ \E list \in PageLists, cur \in PageCursors, rid \in {1, 2} :
          \E k \in 0..(Len(list) + 1) :
             \E after \in {PageTx(PageTables(batch_item_rows,
                                              ingestion_checkpoint),
                                   list,
                                   CheckpointRow(rid, PHASE_SEARCH,
                                       IF list # <<>> THEN list[Len(list)]
                                       ELSE 0, 1, cur),
                                   k)} :
                 /\ batch_item_rows' = after.items
                 /\ ingestion_checkpoint' = after.checkpoints
                 /\ outcome' = BlockOutcome(k, Len(list) + 1, FALSE)
    /\ UNCHANGED <<ingestion_run, import_batch_item, proff_raw_company,
                   company, proff_financial_item, company_rows,
                   financial_item_rows>>
    /\ UNCHANGED <<procvars, clientvars, normvars, brregvars, runsvars>>
    /\ UNCHANGED <<execs, kills, error, fetched, written, prior, auth_seen>>

WriterNext ==
    \/ WriterEntity
    \/ WriterPage

WriterSpec == Init /\ [][WriterNext]_vars

\* ========================================================= the HTTP clients
\* One logical request of a client and the transaction that follows it, as
\* the loops of the two jobs have them: the call of get_company_details or
\* get (d: lines 476-477, s: line 394), then a `with engine.begin()` block
\* (the writes of the entity or the page, or FINISH_RUN in the handler).

\* The Retry-After header of a response: absent, a number of seconds, or an
\* HTTP-date that many seconds ahead.
NoHeader         == [kind |-> "absent", seconds |-> 0]
SecondsHeader(n) == [kind |-> "seconds", seconds |-> n]
DateHeader(n)    == [kind |-> "date", seconds |-> n]

RetryAfterValues ==
    {NoHeader, SecondsHeader(0), SecondsHeader(3), DateHeader(3)}

\* float(retry_after) raises ValueError on what is no number
float_raises(retry_after) == retry_after.kind = "date"

sleep_linear(a, retry_after) ==
    IF retry_after.kind # "absent" /\ ~float_raises(retry_after)
    THEN retry_after.seconds
    ELSE BACKOFF_BASE_SECONDS * (a + 1)

\* ProffClient._sleep: the seconds slept
sleep(a, retry_after) ==
    IF retry_after.kind # "absent" /\ ~float_raises(retry_after)
    THEN retry_after.seconds
    ELSE BACKOFF_BASE_SECONDS * (2 ^ a)

\* the responses to one attempt: a network error, a retryable status with
\* any header, a status that is not retried
ClientResponses ==
    {[status |-> 0, payload |-> "none", retry_after |-> NoHeader]}
    \cup {[status |-> 503, payload |-> "none", retry_after |-> h] :
             h \in RetryAfterValues}
    \cup {[status |-> st, payload |-> "none", retry_after |-> NoHeader] :
             st \in {200, 401, 404}}

\* the note of one sleep
Slept(a, r) ==
    [attempt |-> a, status |-> r.status, retry_after |-> r.retry_after,
     delay |-> sleep(a, IF r.status = 0 THEN NoHeader ELSE r.retry_after)]

engine_begin_exit_leak(open) == open

\* the end of a `with engine.begin()` block: the transaction is committed
\* or rolled back, none is open
engine_begin_exit(open) == FALSE

\* the call of the client
ClientCall ==
    /\ pc = "idle"
    /\ pc' = "c_http"
    /\ attempt' = 0
    /\ requests' = 0
    /\ result' = NoResult
    /\ error' = "none"
    /\ sleeps' = <<>>
    /\ UNCHANGED <<dbvars, idvars, walkvars, rowvars, normvars, brregvars,
                   runsvars, tx_open>>
    /\ UNCHANGED <<execs, kills, outcome, fetched, written, prior, auth_seen>>

\* one pass of the retry loop of get_company_details or get, or get's
\* final attempt
ClientAttempt ==
    /\ pc = "c_http"
    /\ IF job = "details"
       THEN IF RetryLoopContinues(attempt)
            THEN \E r \in ClientResponses :
                    /\ requests' = requests + 1
                    /\ CASE DetailsDisposition(r) = "retry" ->
                              /\ sleeps' = Append(sleeps, Slept(attempt, r))
                              /\ attempt' = attempt + 1
                              /\ UNCHANGED <<pc, result, error>>
                         [] DetailsDisposition(r) = "raise" ->
                              /\ pc' = "c_begin"
                              /\ error' = "RuntimeError"
                              /\ UNCHANGED <<sleeps, attempt, result>>
                         [] OTHER ->
                              /\ pc' = "c_begin"
                              /\ result' = DetailsReturn(r)
                              /\ UNCHANGED <<sleeps, attempt, error>>
            ELSE /\ pc' = "c_begin"
                 /\ result' = DetailsExhausted
                 /\ UNCHANGED <<sleeps, attempt, requests, error>>
       ELSE \E r \in ClientResponses :
               /\ requests' = requests + 1
               /\ IF RetryLoopContinues(attempt) /\ GetRetries(r)
                  THEN /\ sleeps' = Append(sleeps, Slept(attempt, r))
                       /\ attempt' = attempt + 1
                       /\ UNCHANGED <<pc, result, error>>
                  ELSE /\ pc' = "c_begin"
                       /\ result' = Resp(r.status, r.payload)
                       /\ error' = IF r.status = 0 THEN "RequestException"
                                   ELSE IF ~ok(r) THEN "RuntimeError"
                                   ELSE "none"
                       /\ UNCHANGED <<sleeps, attempt>>
    /\ UNCHANGED <<dbvars, idvars, walkvars, rowvars, normvars, brregvars,
                   runsvars, tx_open>>
    /\ UNCHANGED <<execs, kills, outcome, fetched, written, prior, auth_seen>>

\* with engine.begin() as conn:
ClientBegin ==
    /\ pc = "c_begin"
    /\ tx_open' = TRUE
    /\ pc' = "c_tx"
    /\ UNCHANGED <<dbvars, idvars, walkvars, httpvars, rowvars, normvars,
                   brregvars, runsvars, sleeps>>
    /\ UNCHANGED obsvars

\* the block is left: a unit of work is done
ClientCommit ==
    /\ pc = "c_tx"
    /\ tx_open' = engine_begin_exit(tx_open)
    /\ processed' = 1
    /\ pc' = "idle"
    /\ UNCHANGED <<dbvars, idvars, orgnrs, orgnr, next_url, page, last_orgnr,
                   httpvars, rowvars, normvars, brregvars, runsvars, sleeps>>
    /\ UNCHANGED obsvars

ClientNext ==
    \/ ClientCall
    \/ ClientAttempt
    \/ ClientBegin
    \/ ClientCommit

ClientSpec == Init /\ [][ClientNext]_vars

\* ========================================================== the normalizer
\* the elements of an "accounts" list: a string, an object without code,
\* an object with a number, an object with a value that is no number
Records ==
    {StrAccount, Account(Null, "5", Null), Account("DR", "5", "NOK"),
     Account("SI", "n/a", Null), Account("DR", "0", Null),
     AmountAccount("DR", "0", "8", Null),
     AmountAccount("SI", Null, "8", Null)}

RecordLists == UNION {[1..n -> Records] : n \in 0..MaxRecords}

AccountsValues ==
    {NullAccounts, StrAccounts,
     DictAccounts(<<Account("DR", "5", Null), Account("SI", "n/a", Null)>>)}
    \cup {ListAccounts(l) : l \in RecordLists}

YearValues ==
    {NullYear, StrYear, IntYear(2020), IntYear(2021), DigitsYear(2024)}

YearBlocks ==
    {StrBlock} \cup {YearBlock(y, a, "NOK") : y \in YearValues,
                                              a \in AccountsValues}

GoodBlock ==
    YearBlock(IntYear(2024), DictAccounts(<<Account("EBIT", "9", Null)>>),
              "EUR")

Sections ==
    {NullSection, StrSection}
    \cup {ListSection(<<b>>) : b \in YearBlocks}
    \cup {ListSection(<<b, GoodBlock>>) : b \in YearBlocks}

NormalizerInputs ==
    {[payload  |-> Payload("A", [kind |-> "absent", name |-> Null],
                           [kind |-> "null"], FALSE, s, c, NullSection),
      min_year |-> m] :
        s \in Sections, c \in {NullSection, ListSection(<<GoodBlock>>)},
        m \in {main_min_year, main_min_year + 4}}

NormalizerInit ==
    /\ InitProgram
    /\ sleeps = <<>>
    /\ tx_open = FALSE
    /\ input \in NormalizerInputs
    /\ yielded = NotRun

\* list(iter_financial_items(payload, min_year))
Normalize ==
    /\ ~yielded.done
    /\ yielded' =
          [done   |-> TRUE,
           raised |-> iter_financial_items_raises(input.payload),
           items  |-> iter_financial_items(input.payload, input.min_year)]
    /\ UNCHANGED <<dbvars, procvars, obsvars, rowvars, clientvars, brregvars,
                   runsvars, input>>

NormalizerSpec == NormalizerInit /\ [][Normalize]_vars

\* ================================================== two runs side by side
\* Two executions of the jobs run at the same time on one database.  Each
\* transaction block of a run is one step, and the blocks of the two runs
\* are taken in any order.  The batch holds two checkpoint intervals and
\* one orgnr more; the register answers the first orgnr with a company that
\* is public or one that is not, the second with a company, and knows no
\* other orgnr (404).
Workers   == {1, 2}
RunsBatch == 1..(2 * CHECKPOINT_EVERY_N + 1)

RunsResults(o) ==
    IF o = 1
    THEN {[status |-> 200, body |-> Body("dict", o)],
          [status |-> 200,
           body   |-> DictBody("A", [kind |-> "absent", name |-> Null],
                               [kind |-> "null"], TRUE,
                               <<Account("DR", "7", Null)>>)]}
    ELSE IF o = 2
    THEN {[status |-> 200, body |-> Body("dict", o)]}
    ELSE {[status |-> 404, body |-> OtherBody("none")]}

\* the locals of main() of a job j before its first block
NewWorker(j) ==
    [job |-> j, pc |-> "create", run_id |-> 0, orgnrs |-> <<>>,
     processed |-> 0, page |-> 0, next_url |-> NoUrl]

RunsInit ==
    /\ ingestion_run = <<>>
    /\ ingestion_checkpoint = {}
    /\ import_batch_item = RunsBatch
    /\ proff_raw_company = [o \in RunsBatch |-> NoRaw]
    /\ company = {}
    /\ proff_financial_item = {}
    /\ company_rows = <<>>
    /\ financial_item_rows = <<>>
    /\ batch_item_rows = <<>>
    /\ workers \in [Workers -> {NewWorker("details"), NewWorker("search")}]
    /\ pc = "idle" /\ job = "none" /\ args = NoArgs /\ run_id = 0
    /\ orgnrs = <<>> /\ processed = 0 /\ orgnr = 0 /\ next_url = NoUrl
    /\ page = 0 /\ last_orgnr = 0 /\ attempt = 0 /\ requests = 0
    /\ result = NoResult /\ execs = 0 /\ kills = 0 /\ outcome = "none"
    /\ error = "none" /\ fetched = <<>> /\ written = {} /\ prior = {}
    /\ auth_seen = 0 /\ sleeps = <<>> /\ tx_open = FALSE
    /\ input = NoInput /\ yielded = NotRun
    /\ variant = 0 /\ last_exc = "none"

\* what no block of a run touches
RunsUnchanged ==
    /\ UNCHANGED <<company, proff_financial_item, batch_item_rows>>
    /\ UNCHANGED <<procvars, obsvars, clientvars, normvars, brregvars>>

\* the first block of main(): the run row; for the entity-list job also
\* the work list (no --resume, no --limit)
RunsCreate(w) ==
    /\ workers[w].pc = "create"
    /\ ingestion_run' =
          IF workers[w].job = "details" THEN get_or_create_run(ingestion_run)
          ELSE INSERT_RUN(ingestion_run, RUN_TYPE_SEARCH)
    /\ workers' =
          [workers EXCEPT
             ![w].run_id   = inserted_run_id(ingestion_run'),
             ![w].orgnrs   = IF workers[w].job = "details"
                             THEN load_batch_orgnrs(import_batch_item)
                             ELSE <<>>,
             ![w].next_url = IF workers[w].job = "details" THEN NoUrl
                             ELSE StartUrl,
             ![w].pc       = "loop"]
    /\ UNCHANGED <<ingestion_checkpoint, import_batch_item, proff_raw_company,
                   company_rows, financial_item_rows>>
    /\ RunsUnchanged

\* the entity block of the next orgnr of the list, committed
RunsEntity(w) ==
    /\ workers[w].pc = "loop"
    /\ workers[w].job = "details"
    /\ workers[w].processed < Len(workers[w].orgnrs)
    /\ \E r \in RunsResults(workers[w].orgnrs[workers[w].processed + 1]) :
          \E after \in {EntityTx(EntityTables(proff_raw_company,
                                    company_rows, financial_item_rows),
                                workers[w].orgnrs[workers[w].processed + 1],
                                r.status, r.body.kind, r.body,
                                EntityStatements(r.status, r.body))} :
              /\ proff_raw_company' = after.raw
              /\ company_rows' = after.company
              /\ financial_item_rows' = after.facts
    /\ workers' =
          [workers EXCEPT
             ![w].processed = @ + 1,
             ![w].pc = IF CheckpointDue(workers[w].processed + 1)
                       THEN "checkpoint" ELSE "loop"]
    /\ UNCHANGED <<ingestion_run, ingestion_checkpoint, import_batch_item>>
    /\ RunsUnchanged

\* the checkpoint block of the entity-list job
RunsCheckpoint(w) ==
    /\ workers[w].pc = "checkpoint"
    /\ ingestion_checkpoint' =
          MERGE_CHECKPOINT(ingestion_checkpoint,
              CheckpointRow(workers[w].run_id, PHASE_DETAILS,
                            workers[w].orgnrs[workers[w].processed],
                            workers[w].processed, NoUrl))
    /\ workers' = [workers EXCEPT ![w].pc = "loop"]
    /\ UNCHANGED <<ingestion_run, import_batch_item, proff_raw_company,
                   company_rows, financial_item_rows>>
    /\ RunsUnchanged

\* the page block of the cursor job (no --limit-pages): the items of the
\* page and the checkpoint
RunsPage(w) ==
    /\ workers[w].pc = "loop"
    /\ workers[w].job = "search"
    /\ workers[w].next_url # NoUrl
    /\ LET data == ServerPage(workers[w].next_url.page)
           list == extract_orgnrs_from_search_response(data)
           href == get_next_href(data)
       IN  /\ import_batch_item' = BatchItemKeys(import_batch_item, list)
           /\ ingestion_checkpoint' =
                 MERGE_CHECKPOINT(ingestion_checkpoint,
                     CheckpointRow(workers[w].run_id, PHASE_SEARCH,
                                   list[Len(list)], workers[w].page + 1,
                                   href))
           /\ workers' =
                 [workers EXCEPT
                    ![w].page = @ + 1,
                    ![w].next_url = IF href # NoUrl THEN ResolveHref(href)
                                    ELSE NoUrl]
    /\ UNCHANGED <<ingestion_run, proff_raw_company, company_rows,
                   financial_item_rows>>
    /\ RunsUnchanged

\* the last block of main(): the run is succeeded
RunsFinish(w) ==
    /\ workers[w].pc = "loop"
    /\ IF workers[w].job = "details"
       THEN workers[w].processed = Len(workers[w].orgnrs)
       ELSE workers[w].next_url = NoUrl
    /\ ingestion_run' =
          finish_run(ingestion_run, workers[w].run_id, "succeeded", "Processed")
    /\ workers' = [workers EXCEPT ![w].pc = "done"]
    /\ UNCHANGED <<ingestion_checkpoint, import_batch_item, proff_raw_company,
                   company_rows, financial_item_rows>>
    /\ RunsUnchanged

RunsNext ==
    \E w \in Workers :
        \/ RunsCreate(w)
        \/ RunsEntity(w)
        \/ RunsCheckpoint(w)
        \/ RunsPage(w)
        \/ RunsFinish(w)

RunsSpec == RunsInit /\ [][RunsNext]_vars

\* ========================================================= brreg_regnskap
\* param_variants, each with the year when one is given (0: no year)
param_variants(year) ==
    LET types == <<"none", "SELSKAP", "KONSERN">>
    IN  [i \in 1..Len(types) |-> [regnskapstype |-> types[i], year |-> year]]

\* what requests.get gives: a response with a JSON body or another body, a
\* 404, another 4xx, a 5xx, or an exception of the connection (status 0)
RegnskapResponses ==
    {Resp(200, "dict"), Resp(200, "none"), Resp(404, "none"),
     Resp(400, "none"), Resp(500, "none"), Resp(503, "none"),
     Resp(0, "none")}

RangeHasMoreOneMore(a) == a + 1 <= REGNSKAP_ATTEMPTS

\* for attempt in range(3): there is a pass after the pass a
RangeHasMore(a) == a + 1 < REGNSKAP_ATTEMPTS

\* r.raise_for_status() raises HTTPError
raise_for_status(r) == r.status >= 400

\* the call ends, by return or by the exception e
RegnskapEnd(how, e) ==
    /\ pc' = "idle"
    /\ outcome' = how
    /\ error' = e

\* get_regnskap(orgnr, year): up to the first request
GetRegnskap ==
    /\ pc = "idle"
    /\ outcome = "none"
    /\ \E year \in {0, 2023} : args' = [year |-> year]
    /\ pc' = "b_http"
    /\ outcome' = "running"
    /\ variant' = 1
    /\ attempt' = 0
    /\ UNCHANGED <<dbvars, job, run_id, orgnrs, processed, orgnr, next_url,
                   page, last_orgnr, requests, result>>
    /\ UNCHANGED <<execs, kills, error, fetched, written, prior, auth_seen>>
    /\ UNCHANGED <<rowvars, clientvars, normvars, last_exc, runsvars>>

\* r = requests.get(url, params=params, timeout=30) and what follows it up
\* to the next request or the end of the call; sleeps are in units of 0.5 s
RegnskapRequest ==
    /\ pc = "b_http"
    /\ \E r \in RegnskapResponses :
          /\ requests' = requests + 1
          /\ fetched' = Append(fetched,
                 [params |-> param_variants(args.year)[variant],
                  status |-> r.status])
          /\ IF r.status = 0
             THEN /\ RegnskapEnd("raised", "ConnectionError")
                  /\ UNCHANGED <<variant, attempt, last_exc, sleeps, result>>
             ELSE IF r.status >= 500
             THEN /\ sleeps' = Append(sleeps, 2 ^ attempt)
                  /\ result' = r
                  /\ IF RangeHasMore(attempt)
                     THEN /\ attempt' = attempt + 1
                          /\ UNCHANGED <<pc, outcome, error, variant,
                                         last_exc>>
                     ELSE /\ last_exc' = "HTTPError"
                          /\ IF variant < Len(param_variants(args.year))
                             THEN /\ variant' = variant + 1
                                  /\ attempt' = 0
                                  /\ UNCHANGED <<pc, outcome, error>>
                             ELSE /\ RegnskapEnd("raised", last_exc')
                                  /\ UNCHANGED <<variant, attempt>>
             ELSE /\ result' = r
                  /\ IF r.status = 404 \/ raise_for_status(r)
                     THEN RegnskapEnd("raised", "HTTPError")
                     ELSE IF r.payload # "dict"
                     THEN RegnskapEnd("raised", "ValueError")
                     ELSE RegnskapEnd("returned", "none")
                  /\ UNCHANGED <<variant, attempt, last_exc, sleeps>>
    /\ UNCHANGED <<dbvars, job, args, run_id, orgnrs, processed, orgnr,
                   next_url, page, last_orgnr>>
    /\ UNCHANGED <<execs, kills, written, prior, auth_seen>>
    /\ UNCHANGED <<rowvars, normvars, tx_open, runsvars>>

RegnskapNext ==
    \/ GetRegnskap
    \/ RegnskapRequest

RegnskapSpec == Init /\ [][RegnskapNext]_vars

\* ======================================================== the extractor
\* extract_orgnrs_from_search_response is applied to the object bodies of
\* search responses: the candidate keys hold nothing, no list, or lists of
\* up to MaxEntries elements; an element is a string or an object whose ID
\* keys hold nothing, a text or number of nine digits, or one of another
\* length.
Entries ==
    {StrEntry,
     Entry(<<>>),
     Entry([organisationNumber |-> IdValue("str", 9, 1)]),
     Entry([orgnr |-> IdValue("int", 9, 2)]),
     Entry([organisationNumber |-> IdValue("str", 8, 3),
            id |-> IdValue("int", 9, 1)]),
     Entry([organizationNumber |-> IdValue("int", 10, 4)]),
     Entry([organisationNumber |-> IdValue("str", 9, 2),
            businessId |-> IdValue("str", 9, 3)])}

EntryLists == UNION {[1..n -> Entries] : n \in 0..MaxEntries}

ExtractInputs ==
    {[data |-> SearchBody([companies |-> c, results |-> r, entities |-> e],
                          NoUrl)] :
        c \in {NullSection, StrSection} \cup {ListSection(l) : l \in EntryLists},
        r \in {NullSection,
               ListSection(<<Entry([id |-> IdValue("str", 9, 3)])>>)},
        e \in {NullSection,
               ListSection(<<Entry([orgnr |-> IdValue("str", 9, 1)])>>)}}

ExtractInit ==
    /\ InitProgram
    /\ sleeps = <<>>
    /\ tx_open = FALSE
    /\ input \in ExtractInputs
    /\ yielded = NotRun

\* orgnrs = extract_orgnrs_from_search_response(data)
Extract ==
    /\ ~yielded.done
    /\ yielded' =
          [done   |-> TRUE,
           raised |-> extract_orgnrs_from_search_response_raises(input.data),
           items  |-> extract_orgnrs_from_search_response(input.data)]
    /\ UNCHANGED <<dbvars, procvars, obsvars, rowvars, clientvars, brregvars,
                   runsvars, input>>

ExtractSpec == ExtractInit /\ [][Extract]_vars

\* ==================================================================== claims
Terminal == {"succeeded", "failed"}
RunIds   == 1..Len(ingestion_run)
HasRaw   == {o \in Orgnrs : proff_raw_company[o].http_status # 0}
Ended    == pc = "idle" /\ outcome \in {"returned", "raised"}
Ascending(list) == \A i, j \in 1..Len(list) : i < j => list[i] < list[j]

\* C1: a run row is never removed, and its status changes only from running
\* to succeeded or failed; once succeeded or failed no step of any execution
\* of either job changes it.
C1_StatusChangesOnce ==
    [][\A r \in RunIds :
          /\ r <= Len(ingestion_run')
          /\ \/ ingestion_run'[r].status = ingestion_run[r].status
             \/ /\ ingestion_run[r].status = "running"
                /\ ingestion_run'[r].status \in Terminal]_vars

\* a later execution is under way after one run succeeded and one failed
C1_Witness ==
    /\ Len(ingestion_run) = 2
    /\ ingestion_run[1].status \in Terminal
    /\ ingestion_run[2].status \in Terminal
    /\ ingestion_run[1].status # ingestion_run[2].status

\* the checkpoints that earlier executions of the entity-list job left
EarlierCheckpoints ==
    {c \in ingestion_checkpoint :
        c.phase = PHASE_DETAILS /\ run_id # 0 /\ c.run_id < run_id}

\* C2: an entity-list execution started with the resume flag, where an
\* earlier execution left a checkpoint at E_k, fetches only IDs strictly
\* greater than E_k.
C2_ResumeAfterCheckpoint ==
    (job = "details" /\ args.resume) =>
        \A c \in EarlierCheckpoints :
            \A i \in 1..Len(fetched) : fetched[i] > c.last_orgnr

\* C3: an execution started with the resume flag, when a run of its job
\* exists already, creates no new run row: it goes on under the existing
\* run_id.
C3_ResumeReusesRunId ==
    [][(/\ pc \in {"d_create", "s_create"}
        /\ args.resume
        /\ \E r \in RunIds : ingestion_run[r].run_type =
              (IF job = "details" THEN RUN_TYPE_DETAILS ELSE RUN_TYPE_SEARCH))
       => Len(ingestion_run') = Len(ingestion_run)]_vars

\* the pages that earlier executions of the cursor job stored completely
PagesStoredEarlier ==
    {p \in 1..NumPages :
        \E c \in ingestion_checkpoint :
            /\ c.phase = PHASE_SEARCH
            /\ run_id # 0 /\ c.run_id < run_id
            /\ p <= c.last_offset}

\* C4: after a kill, a resumed execution fetches again at most
\* CHECKPOINT_EVERY_N of the orgnrs (at most CHECKPOINT_EVERY_PAGES of the
\* pages) that were completely stored before the kill.
C4_BoundedRedo ==
    (kills > 0 /\ pc # "idle" /\ args.resume) =>
        /\ job = "details" =>
              Cardinality(Range(fetched) \cap prior) <= CHECKPOINT_EVERY_N
        /\ job = "search" =>
              Cardinality(Range(fetched) \cap PagesStoredEarlier)
                  <= CHECKPOINT_EVERY_PAGES

\* C5 as stated: no logical request of either client issues more than
\* MAX_RETRIES HTTP requests.
C5_AttemptsAtMostMaxRetries == requests <= MAX_RETRIES

\* C5 as amended: get_company_details issues at most MAX_RETRIES requests,
\* get at most MAX_RETRIES + 1 (the loop and its final attempt).
C5_AttemptsBounded ==
    /\ job = "details" => requests <= MAX_RETRIES
    /\ job = "search"  => requests <= MAX_RETRIES + 1

\* get has answered its final attempt after MAX_RETRIES failures
C5_Witness ==
    /\ pc = "s_page_ret"
    /\ requests = MAX_RETRIES + 1
    /\ result.status \in Retryable

\* C6 as stated: no client propagates the exception of a transient failure.
C6_ClientNeverRaises == error # "RequestException"

\* C6 as amended: get_company_details, once MAX_RETRIES attempts have failed,
\* returns (599, None) and raises nothing; get lets a network error through
\* only from its final attempt, after MAX_RETRIES failed ones, and at no
\* earlier attempt.
C6_RaisesOnlyFromFinalAttempt ==
    [][/\ (pc = "d_http" /\ attempt = MAX_RETRIES /\ pc' # "idle") =>
              /\ pc' = "d_store"
              /\ result' = Resp(599, "none")
              /\ error' = "none"
       /\ (error = "none" /\ error' = "RequestException") =>
              /\ job = "search"
              /\ attempt = MAX_RETRIES
              /\ requests = MAX_RETRIES]_vars

\* the page loop is in its handler for the network error of a final attempt
C6_Witness ==
    /\ pc = "s_except"
    /\ error = "RequestException"
    /\ requests = MAX_RETRIES + 1

\* C7: once a 401 or 403 response has arrived, the client sends nothing
\* more for that request, the walk fetches no further entity or page, and
\* the run, when the process has ended, is failed.
C7_AuthIsFatal ==
    /\ [][(auth_seen \in {401, 403}) =>
             (requests' <= requests /\ fetched' = fetched)]_vars
    /\ []((auth_seen \in {401, 403} /\ Ended /\ run_id # 0) =>
             ingestion_run[run_id].status = "failed")

\* C8: when the first request of an entity-list execution is answered 401,
\* the walk goes to its handler and the run ends failed; the execution has
\* stored no entity row and no checkpoint.
C8_First401 ==
    (job = "details" /\ auth_seen = 401 /\ Len(fetched) = 1) =>
        /\ written = {}
        /\ HasRaw = prior
        /\ processed = 0
        /\ ~HasCheckpoint(ingestion_checkpoint, run_id, PHASE_DETAILS)
        /\ \/ pc = "d_except" /\ ingestion_run[run_id].status = "running"
           \/ pc = "idle" /\ ingestion_run[run_id].status = "failed"

\* the execution has ended on the 401 of its first request
C8_Witness ==
    /\ job = "details" /\ auth_seen = 401 /\ Len(fetched) = 1
    /\ pc = "idle" /\ outcome = "raised"
    /\ ingestion_run[run_id].status = "failed"

\* C9: an execution that ended by an error after it created its run row
\* has left the row failed, with the error in notes.
C9_ErrorMarksRunFailed ==
    (pc = "idle" /\ outcome = "raised" /\ run_id # 0) =>
        /\ ingestion_run[run_id].status = "failed"
        /\ ingestion_run[run_id].notes = "Error"

\* the errors a fetch can raise into the entity-list walk
FetchErrors == {"RuntimeError", "RequestException", "HTTPError"}

\* C10: in the entity-list walk a fetch that ends in 599 or in an error
\* status other than 401 and 403 is stored and the walk goes on to the next
\* ID; no fetch but one answered 401 raises into the walk; and a run that
\* succeeded has fetched every ID of its list, in ascending order.
C10_FailureDoesNotStopWalk ==
    /\ [][(/\ pc = "d_store"
           /\ result.status \notin {200, 401, 403}
           /\ pc' # "idle") =>
             (/\ pc' \in {"d_http", "d_finish", "d_ckpt"}
              /\ processed' = processed + 1
              /\ proff_raw_company'[orgnr].http_status = result.status
              /\ ingestion_run' = ingestion_run)]_vars
    /\ []((job = "details" /\ error \in FetchErrors) => auth_seen = 401)
    /\ []((job = "details" /\ Ended /\ outcome = "returned") =>
             /\ ingestion_run[run_id].status = "succeeded"
             /\ fetched = orgnrs
             /\ Ascending(fetched)
             /\ written = Range(orgnrs))

\* a run over the whole batch succeeded although orgnr 1 ended in 599
C10_Witness ==
    /\ job = "details" /\ Ended /\ outcome = "returned"
    /\ Len(fetched) = NumOrgnrs
    /\ proff_raw_company[1].http_status = 599
    /\ ingestion_run[run_id].status = "succeeded"

\* C11 as stated: every entity step of the walk leaves a raw row for the
\* orgnr that carries the status of the fetch, whatever the normalization
\* of the body does.
C11_RawAlwaysPersisted ==
    [][(pc = "d_store" /\ pc' # "idle") =>
          proff_raw_company'[orgnr].http_status = result.status]_vars

\* C12 as stated: no object body makes the mapper raise into the walk.
C12_MalformedNeverFails == error # "AttributeError"

\* the tables the entity block works on, and the block run to its end
WriterTables ==
    EntityTables(proff_raw_company, company_rows, financial_item_rows)

EntityDone(db, r) ==
    EntityTx(db, 1, r.status, r.body.kind, r.body,
             EntityStatements(r.status, r.body))

RowsOf(rows, o) == {i \in 1..Len(rows) : rows[i].orgnr = o}

\* C13: however the entity block is left, the tables hold either all of
\* its writes (it ran to its end and did not raise) or none of them; and no
\* state holds the raw row of an object body without its company row, or
\* facts of an entity without its company row.
C13_EntityAllOrNothing ==
    /\ \A r \in WriterResults :
          \A k \in 0..EntityStatements(r.status, r.body) :
             LET n     == EntityStatements(r.status, r.body)
                 after == EntityTx(WriterTables, 1, r.status, r.body.kind,
                                   r.body, k)
             IN  \/ after = WriterTables
                 \/ /\ k = n
                    /\ ~EntityRaises(r.status, r.body)
                    /\ after = EntityWrites(WriterTables, 1, r.status,
                                            r.body.kind, r.body, n)
    /\ \A o \in Orgnrs :
          /\ (proff_raw_company[o].http_status = 200
                 /\ proff_raw_company[o].payload = "dict")
                => RowsOf(company_rows, o) # {}
          /\ RowsOf(financial_item_rows, o) # {}
                => RowsOf(company_rows, o) # {}

\* the block was left on an exception of the mapper when the entity had
\* its rows from an earlier step, and they are as they were
C13_Witness ==
    /\ outcome = "raised" /\ error = "AttributeError"
    /\ proff_raw_company[1].http_status = 200
    /\ proff_raw_company[1].payload = "dict"
    /\ Len(company_rows) = 1
    /\ Len(financial_item_rows) = 2

\* C14: the fact table never holds two rows with one key (orgnr,
\* fiscal_year, account_view, code).
C14_NoDuplicateFacts ==
    \A i, j \in 1..Len(financial_item_rows) :
        FactKey(financial_item_rows[i]) = FactKey(financial_item_rows[j])
            => i = j

\* the fact DR was merged twice: it has the value of one record and the
\* currency of another
C14_Witness ==
    \E i \in 1..Len(financial_item_rows) :
        /\ financial_item_rows[i].code = "DR"
        /\ financial_item_rows[i].value = "7"
        /\ financial_item_rows[i].currency = "NOK"

\* the page block run to its end
PageInputs ==
    {[list |-> l, row |-> CheckpointRow(rid, PHASE_SEARCH, 0, 1, cur)] :
        l \in PageLists, rid \in {1, 2}, cur \in PageCursors}

PageDone(db, in) == PageTx(db, in.list, in.row, Len(in.list) + 1)

\* C15: the entity block and the page block, applied a second time to the
\* same input, leave every table as the first application left it.
C15_WriterIdempotent ==
    /\ \A r \in WriterResults :
          EntityDone(EntityDone(WriterTables, r), r)
              = EntityDone(WriterTables, r)
    /\ \A in \in PageInputs :
          LET db == PageTables(batch_item_rows, ingestion_checkpoint)
          IN  PageDone(PageDone(db, in), in) = PageDone(db, in)

\* both orgnrs are in the batch, and both runs have their checkpoint
C15_Witness ==
    /\ Len(batch_item_rows) = 2
    /\ Cardinality(ingestion_checkpoint) = 2

\* the rows MERGE_COMPANY can be given
CompanySources ==
    [orgnr : {1}, name : {Null, "A", "B"}, country_code : {Null, "NO"},
     is_public_sector : {Null, "0", "1"},
     excluded_reason : {Null, "public_sector"}]

ProfileFields ==
    {"name", "country_code", "is_public_sector", "excluded_reason"}

\* C16: MERGE_COMPANY of a row whose orgnr has a row already keeps every
\* field whose new value is null and replaces every other field by the new
\* value; no row is added.
C16_ProfileMergeLaw ==
    \A src \in CompanySources :
        \A i \in RowsOf(company_rows, src.orgnr) :
            LET merged == MERGE_COMPANY(company_rows, src)
            IN  /\ Len(merged) = Len(company_rows)
                /\ \A f \in ProfileFields :
                      merged[i][f] = IF src[f] = Null
                                     THEN company_rows[i][f] ELSE src[f]

\* the company was public and is so no more: excluded_reason, null in the
\* later row, is the old one, and is_public_sector is the new one
C16_Witness ==
    /\ Len(company_rows) = 1
    /\ company_rows[1].excluded_reason = "public_sector"
    /\ company_rows[1].is_public_sector = "0"

\* the value the payload extracts last for a code
LastValue(items, code) ==
    LET last == CHOOSE i \in 1..Len(items) :
                    /\ items[i].code = code
                    /\ \A j \in 1..Len(items) :
                          items[j].code = code => j <= i
    IN  items[last].value

\* C17: after the entity block of an object body, every fact of the body
\* has one row, and its value is the one extracted from the body, whatever
\* the table held.
C17_FactLastWriteWins ==
    \A r \in WriterResults :
        (Normalizable(r.status, r.body) /\ ~EntityRaises(r.status, r.body)) =>
            LET items == iter_financial_items(r.body, main_min_year)
                rows  == EntityDone(WriterTables, r).facts
            IN  \A i \in 1..Len(items) :
                   /\ \E j \in 1..Len(rows) :
                         FactKey(rows[j]) = FactKey(FinItem(1, items[i]))
                   /\ \A j \in 1..Len(rows) :
                         FactKey(rows[j]) = FactKey(FinItem(1, items[i]))
                            => rows[j].value = LastValue(items, items[i].code)

\* the fact DR had a value and a currency; a later body gave no number: the
\* value is null, the currency is still there
C17_Witness ==
    \E i \in 1..Len(financial_item_rows) :
        /\ financial_item_rows[i].code = "DR"
        /\ financial_item_rows[i].value = Null
        /\ financial_item_rows[i].currency = "NOK"

\* C18 as stated: when an entity-list run has succeeded, its checkpoint's
\* last_orgnr is the last orgnr of the list it processed.
C18_FinalCheckpoint ==
    (job = "details" /\ Ended /\ outcome = "returned" /\ orgnrs # <<>>) =>
        /\ HasCheckpoint(ingestion_checkpoint, run_id, PHASE_DETAILS)
        /\ TheCheckpoint(ingestion_checkpoint, run_id, PHASE_DETAILS).last_orgnr
              = orgnrs[Len(orgnrs)]

\* the orgnrs of all pages of the result set
AllPageOrgnrs ==
    UNION {Range(PageOrgnrs(p)) : p \in 1..NumPages}

LatestSearchCheckpoints ==
    {c \in ingestion_checkpoint :
        /\ c.phase = PHASE_SEARCH /\ run_id # 0 /\ c.run_id < run_id
        /\ \A d \in ingestion_checkpoint :
              (d.phase = PHASE_SEARCH /\ d.run_id < run_id)
                  => d.run_id <= c.run_id}

\* C20 as stated: a cursor execution started with the resume flag, where
\* the earlier run left a next-page token in its checkpoint, requests the
\* page of that token first.
C20_ResumeAtStoredCursor ==
    (job = "search" /\ args.resume /\ fetched # <<>>) =>
        \A c \in LatestSearchCheckpoints :
            c.last_cursor # NoUrl => fetched[1] = c.last_cursor.page

\* the last page the walk has fetched
LastFetched == fetched[Len(fetched)]

\* C21: in the cursor walk a page whose fetch ends in a status of 400 or
\* more, or in a network error on the final attempt, makes the walk raise
\* with nothing stored; the handler then marks the run failed and the
\* process ends with no further fetch; and the walk fetches a next page
\* only when the page before it is stored and checkpointed.
C21_FailedPageIsFatal ==
    /\ [][(pc = "s_page_ret" /\ result.status >= 400 /\ outcome' # "killed") =>
             /\ pc' = "s_except" /\ error' = "RuntimeError"
             /\ UNCHANGED <<dbvars, fetched>>]_vars
    /\ [][(pc = "s_page" /\ error' = "RequestException") =>
             /\ pc' = "s_except" /\ requests' = MAX_RETRIES + 1
             /\ UNCHANGED <<dbvars, fetched>>]_vars
    /\ [][(pc = "s_except" /\ outcome' # "killed") =>
             /\ pc' = "idle" /\ outcome' = "raised"
             /\ ingestion_run'[run_id].status = "failed"
             /\ fetched' = fetched]_vars
    /\ [][(job = "search" /\ fetched # <<>>
              /\ Len(fetched') = Len(fetched) + 1) =>
             /\ HasCheckpoint(ingestion_checkpoint, run_id, PHASE_SEARCH)
             /\ TheCheckpoint(ingestion_checkpoint, run_id,
                              PHASE_SEARCH).last_offset = page
             /\ Range(PageOrgnrs(LastFetched))
                   \subseteq import_batch_item]_vars

\* the fetch of the second page failed: the walk has ended by its error and
\* the run is failed
C21_Witness ==
    /\ job = "search" /\ Ended /\ outcome = "raised"
    /\ error = "RuntimeError"
    /\ Len(fetched) = 2
    /\ ingestion_run[Len(ingestion_run)].status = "failed"

\* C22 as stated: in neither job does the handling of a fetch that ended in
\* 404 raise.
C22_NotFoundIsNoError ==
    [][(pc \in {"d_store", "s_page_ret"} /\ result.status = 404
           /\ outcome' # "killed") => error' = "none"]_vars

\* C23: in one logical request, the k-th sleep follows the attempt k-1, and
\* a sleep after a failure without Retry-After header lasts
\* BACKOFF_BASE_SECONDS * 2^(k-1): it is no shorter than any earlier such
\* sleep of the request.
C23_BackoffDoubles ==
    \A k \in 1..Len(sleeps) :
        /\ sleeps[k].attempt = k - 1
        /\ sleeps[k].retry_after = NoHeader =>
              /\ sleeps[k].delay = BACKOFF_BASE_SECONDS * (2 ^ (k - 1))
              /\ \A j \in 1..k :
                    sleeps[j].retry_after = NoHeader
                        => sleeps[j].delay <= sleeps[k].delay

\* every attempt of the retry loop failed without header
C23_Witness ==
    /\ Len(sleeps) = MAX_RETRIES
    /\ \A k \in 1..Len(sleeps) : sleeps[k].retry_after = NoHeader
    /\ sleeps[1].delay < sleeps[MAX_RETRIES].delay

\* C24 as stated: the sleep after a retryable response with a Retry-After
\* header lasts what the header says.
C24_RetryAfterOverrides ==
    \A k \in 1..Len(sleeps) :
        sleeps[k].retry_after # NoHeader
            => sleeps[k].delay = sleeps[k].retry_after.seconds

\* the rows of a fact table with the key of the code, in the company view of
\* 2024 of orgnr 1
FactRows(rows, code) ==
    {rows[i] : i \in {j \in 1..Len(rows) :
                         FactKey(rows[j]) = <<1, 2024, "company", code>>}}

\* the account records of the body of a result
RecordsOf(r) == r.body.companyAccounts.list[1].accounts.list

\* C25 as stated: after the entity block of an object body, a code whose
\* only records in the body have a value that is no number has the fact
\* rows it had before: none is added and none is changed.
C25_FailedCoercionDropped ==
    \A r \in WriterResults :
        (Normalizable(r.status, r.body) /\ ~EntityRaises(r.status, r.body)) =>
            \A after \in {EntityDone(WriterTables, r).facts} :
                \A i \in 1..Len(RecordsOf(r)) :
                    (\A j \in 1..Len(RecordsOf(r)) :
                        RecordsOf(r)[j].code = RecordsOf(r)[i].code
                            => to_decimal(RecordsOf(r)[j].value) = Null)
                    => FactRows(after, RecordsOf(r)[i].code)
                          = FactRows(financial_item_rows, RecordsOf(r)[i].code)

\* the view sections of a payload
ViewSection(body, view_name) ==
    CASE view_name = "company"   -> body.companyAccounts
      [] view_name = "corporate" -> body.corporateAccounts
      [] view_name = "annual"    -> body.annualAccounts

ViewNames == {"company", "corporate", "annual"}

\* the year blocks of a payload from which facts are to be extracted: the
\* objects, in a section that is a list, with a year that is a number and
\* accounts that are a list or an object
ReadableBlocks(body, view_name) ==
    IF ViewSection(body, view_name).kind # "list" THEN {}
    ELSE {b \in Range(ViewSection(body, view_name).list) :
             /\ b.kind = "dict"
             /\ b.year.kind \in {"int", "digits"}
             /\ b.accounts.kind \in {"list", "dict"}}

\* the records of a block that are objects with a code
ReadableRecords(b) ==
    {a \in Range(b.accounts.list) : a.kind = "dict" /\ a.code # Null}

\* C26: a call of iter_financial_items on an object does not raise, and
\* every item it yields is extracted from a record with a code in a year
\* block that is an object, with a numeric year and with accounts that are
\* a list or an object, of a view section that is a list.
C26_NormalizerNeverRaises ==
    yielded.done =>
        /\ ~yielded.raised
        /\ \A i \in 1..Len(yielded.items) :
              \E b \in ReadableBlocks(input.payload,
                                      yielded.items[i].account_view) :
                 /\ b.year.n = yielded.items[i].fiscal_year
                 /\ \E a \in ReadableRecords(b) :
                       a.code = yielded.items[i].code

\* the company section holds a string and a block: the string gives
\* nothing, the block its fact
C26_Witness ==
    /\ yielded.done
    /\ input.payload.companyAccounts = ListSection(<<StrBlock, GoodBlock>>)
    /\ input.payload.corporateAccounts = NullSection
    /\ Len(yielded.items) = 1

\* C27: every item yielded has a fiscal year of min_year or later, and
\* every record with a code, of every readable block with a year of
\* min_year or later, is yielded with its year, view and code.
C27_MinYearFilter ==
    yielded.done =>
        /\ \A i \in 1..Len(yielded.items) :
              yielded.items[i].fiscal_year >= input.min_year
        /\ \A v \in ViewNames :
              \A b \in ReadableBlocks(input.payload, v) :
                 b.year.n >= input.min_year =>
                    \A a \in ReadableRecords(b) :
                       \E i \in 1..Len(yielded.items) :
                          /\ yielded.items[i].fiscal_year = b.year.n
                          /\ yielded.items[i].account_view = v
                          /\ yielded.items[i].code = a.code

\* a block of the year min_year is kept while the later block is kept too
C27_Witness ==
    /\ yielded.done
    /\ \E i \in 1..Len(yielded.items) :
          yielded.items[i].fiscal_year = input.min_year
    /\ \E i \in 1..Len(yielded.items) :
          yielded.items[i].fiscal_year > input.min_year

\* C28: the entity block of a result that is not a 200 with an object body
\* changes the raw row of its orgnr and nothing else: the company rows and
\* the fact rows of every orgnr are as they were.
C28_FailedFetchWritesRawOnly ==
    \A r \in WriterResults :
        (r.status # 200 \/ r.body.kind # "dict") =>
            \A after \in {EntityDone(WriterTables, r)} :
                /\ after.company = company_rows
                /\ after.facts = financial_item_rows
                /\ after.raw =
                      [proff_raw_company EXCEPT
                          ![1] = [http_status |-> r.status,
                                  payload |-> r.body.kind]]

\* the entity has its company row and a fact from an earlier step, and the
\* raw row of a later fetch that ended in 404
C28_Witness ==
    /\ proff_raw_company[1].http_status = 404
    /\ Len(company_rows) = 1
    /\ Len(financial_item_rows) = 1

\* C29: the batch item table never holds two rows of one orgnr.
C29_BatchMembershipUnique ==
    \A i, j \in 1..Len(batch_item_rows) :
        batch_item_rows[i].orgnr = batch_item_rows[j].orgnr => i = j

\* orgnr 1 was merged before orgnr 2 and again with the last page stored:
\* the one checkpoint there is names it as the last orgnr
C29_Witness ==
    /\ batch_item_rows = <<BatchItem(1), BatchItem(2)>>
    /\ Cardinality(ingestion_checkpoint) = 1
    /\ \A c \in ingestion_checkpoint : c.last_orgnr = 1

\* C30: while a request of a client is in flight, its retries and sleeps
\* included, no transaction is open.
C30_NoTransactionAcrossRequest == (pc = "c_http") => ~tx_open

\* a request is retried after the transaction of an earlier unit of work
C30_Witness ==
    /\ pc = "c_http"
    /\ processed = 1
    /\ Len(sleeps) >= 2

\* C31: in either job, every checkpoint row names a run whose row in
\* ingestion_run exists already.
C31_CheckpointHasRun == \A c \in ingestion_checkpoint : c.run_id \in RunIds

\* the second execution has written its checkpoint
C31_Witness ==
    /\ Len(ingestion_run) = 2
    /\ \E c \in ingestion_checkpoint : c.run_id = 2

\* C32: when the entity-list run has a checkpoint with last key E, every
\* orgnr of its work list up to E has had its entity block committed: its
\* raw row is written by this run.
C32_CheckpointBehindCommits ==
    job = "details" =>
        \A c \in ingestion_checkpoint :
            c.run_id = run_id /\ c.phase = PHASE_DETAILS =>
                \A i \in 1..Len(orgnrs) :
                    orgnrs[i] <= c.last_orgnr =>
                        orgnrs[i] \in written \cap HasRaw

\* the checkpoint of the run is written and the walk is past it
C32_Witness ==
    /\ job = "details"
    /\ HasCheckpoint(ingestion_checkpoint, run_id, PHASE_DETAILS)
    /\ processed > CHECKPOINT_EVERY_N

\* C33: the batch items of a page and the checkpoint with the page's next
\* token are one transaction: a page block that is left before its end
\* changes neither table, and the orgnr a stored checkpoint names is an
\* item of the batch.
C33_PageAndCursorTogether ==
    /\ [][job = "search" /\ outcome' = "killed" =>
             UNCHANGED <<batch_item_rows, ingestion_checkpoint>>]_vars
    /\ [](\A c \in ingestion_checkpoint :
             c.last_orgnr # 0 =>
                 RowsOf(batch_item_rows, c.last_orgnr) # {})

\* a page block is left before its end, after the block of an earlier page
\* was committed
C33_Witness ==
    /\ job = "search"
    /\ outcome = "killed"
    /\ Len(batch_item_rows) = 1
    /\ \E c \in ingestion_checkpoint : c.last_cursor # NoUrl

\* C35: a cursor run that is succeeded has walked the result set to its
\* end: its checkpoint holds no cursor.
C35_SucceededMeansTraversed ==
    \A r \in RunIds :
        /\ ingestion_run[r].run_type = RUN_TYPE_SEARCH
        /\ ingestion_run[r].status = "succeeded"
        => GET_CHECKPOINT_CURSOR(ingestion_checkpoint, r) = NoUrl

\* C37: in every company row, excluded_reason is 'public_sector' exactly
\* when is_public_sector is 1.
C37_ExclusionMatchesFlag ==
    \A i \in 1..Len(company_rows) :
        company_rows[i].excluded_reason = "public_sector"
            <=> company_rows[i].is_public_sector = "1"

\* the value a list-shaped record is to give: the number under value when
\* there is one, the number under amount when value is absent
RecordValue(a) ==
    IF a.value \notin {Null, "n/a"} THEN a.value
    ELSE IF a.value = Null /\ a.amount # "n/a" THEN a.amount
    ELSE Null

\* C38: every record with a code of a list of accounts, in a readable
\* block of min_year or later, is yielded with the number under value,
\* the number 0 included, and with the number under amount only when value
\* is absent.
C38_ValueBeforeAmount ==
    yielded.done =>
        \A v \in ViewNames :
            \A b \in ReadableBlocks(input.payload, v) :
                b.year.n >= input.min_year /\ b.accounts.kind = "list" =>
                    \A a \in ReadableRecords(b) :
                        \E i \in 1..Len(yielded.items) :
                            /\ yielded.items[i].fiscal_year = b.year.n
                            /\ yielded.items[i].account_view = v
                            /\ yielded.items[i].code = a.code
                            /\ yielded.items[i].value = RecordValue(a)

\* the list that is to be read: the value of the first candidate key that
\* holds a list
FirstList(data) ==
    IF \A i \in 1..Len(CandidateKeys) :
          data.lists[CandidateKeys[i]].kind # "list"
    THEN <<>>
    ELSE data.lists[CandidateKeys[
             CHOOSE i \in 1..Len(CandidateKeys) :
                /\ data.lists[CandidateKeys[i]].kind = "list"
                /\ \A j \in 1..(i - 1) :
                      data.lists[CandidateKeys[j]].kind # "list"]].list

\* the ID keys of an element that hold a valid ID: a text or number of
\* nine digits
ValidKeys(c) ==
    {i \in 1..Len(IdKeys) :
        c.kind = "dict" /\ c.ids[IdKeys[i]].kind # "null"
                        /\ c.ids[IdKeys[i]].digits = 9}

\* the ID of an element with a valid ID: that of its first such key
FirstId(c) ==
    c.ids[IdKeys[CHOOSE i \in ValidKeys(c) :
                    \A j \in ValidKeys(c) : i <= j]].n

\* the places of the list to be read that give the orgnr o
PlacesOf(data, o) ==
    {i \in 1..Len(FirstList(data)) :
        ValidKeys(FirstList(data)[i]) # {} /\ FirstId(FirstList(data)[i]) = o}

\* C39: for an object body, extract_orgnrs_from_search_response does not
\* raise and returns, without duplicates and in the order of their first
\* appearance, the IDs of the elements of the first candidate list that are
\* objects with a valid ID, each ID taken from the first ID key that holds
\* a valid one; there is nothing else in the list returned.
C39_ExtractedOrgnrs ==
    yielded.done =>
        /\ ~yielded.raised
        /\ \A i, j \in 1..Len(yielded.items) :
              i < j =>
                 /\ yielded.items[i] # yielded.items[j]
                 /\ \E x \in PlacesOf(input.data, yielded.items[i]) :
                       \A y \in PlacesOf(input.data, yielded.items[j]) : x < y
        /\ \A i \in 1..Len(yielded.items) :
              PlacesOf(input.data, yielded.items[i]) # {}
        /\ \A x \in 1..Len(FirstList(input.data)) :
              ValidKeys(FirstList(input.data)[x]) # {} =>
                 \E i \in 1..Len(yielded.items) :
                    yielded.items[i] = FirstId(FirstList(input.data)[x])

\* the first list holds an element whose first ID key holds no valid ID
\* and whose later key gives the orgnr of another element: one orgnr is
\* returned for the two; a later candidate key holds a list too
C39_Witness ==
    /\ yielded.done
    /\ input.data.lists["companies"] =
          ListSection(<<Entry([organisationNumber |-> IdValue("str", 9, 1)]),
                        Entry([organisationNumber |-> IdValue("str", 8, 3),
                               id |-> IdValue("int", 9, 1)])>>)
    /\ input.data.lists["results"].kind = "list"
    /\ yielded.items = <<1>>

\* the statuses of the requests of the call so far
Statuses == [i \in 1..Len(fetched) |-> fetched[i].status]

\* C40: a call of get_regnskap makes at most nine requests, three for each
\* parameter variant in the order of the variants, and a request is
\* followed by another only if it was answered 5xx; the call returns the
\* JSON of the first 2xx response; it raises HTTPError at the first 404 or
\* other 4xx; and it raises HTTPError after a 5xx only when all nine
\* requests were answered 5xx.
C40_RegnskapRequests ==
    /\ requests = Len(fetched)
    /\ requests <= 9
    /\ \A i \in 1..Len(fetched) :
          /\ fetched[i].params =
                param_variants(args.year)[((i - 1) \div REGNSKAP_ATTEMPTS) + 1]
          /\ i < Len(fetched) => Statuses[i] >= 500
    /\ outcome = "returned" =>
          /\ Statuses[Len(fetched)] \in 200..299
          /\ result = Resp(Statuses[Len(fetched)], "dict")
    /\ (pc = "idle" /\ fetched # <<>>
           /\ Statuses[Len(fetched)] \in 400..499) =>
          outcome = "raised" /\ error = "HTTPError"
    /\ (pc = "idle" /\ fetched # <<>>
           /\ Statuses[Len(fetched)] \in 200..299) =>
          outcome = "returned" \/ error = "ValueError"
    /\ (outcome = "raised" /\ error = "HTTPError"
           /\ Statuses[Len(fetched)] >= 500) =>
          /\ requests = 9
          /\ \A i \in 1..Len(fetched) : Statuses[i] >= 500
    /\ (pc = "b_http" /\ fetched # <<>>) => Statuses[Len(fetched)] >= 500

\* the ninth request is answered 5xx like the eight before it
C40_Witness ==
    /\ outcome = "raised"
    /\ error = "HTTPError"
    /\ requests = 9
    /\ fetched[requests].params.regnskapstype = "KONSERN"

\* the checkpoint of a run and phase before a write: the row, or a row of
\* offset 0 and key 0 when there is none yet
CheckpointBefore(rid, phase) ==
    IF HasCheckpoint(ingestion_checkpoint, rid, phase)
    THEN TheCheckpoint(ingestion_checkpoint, rid, phase)
    ELSE CheckpointRow(rid, phase, 0, 0, NoUrl)

\* C34: no checkpoint row is removed, and every write of the checkpoint of
\* a run moves it forward: in the entity-list job to a greater last_orgnr
\* and a last_offset greater by CHECKPOINT_EVERY_N, in the cursor job to a
\* last_offset greater by one.
C34_CheckpointMovesForward ==
    [][/\ \A c \in ingestion_checkpoint :
             HasCheckpoint(ingestion_checkpoint', c.run_id, c.phase)
       /\ \A c \in ingestion_checkpoint' \ ingestion_checkpoint :
             IF c.phase = PHASE_DETAILS
             THEN /\ c.last_orgnr >
                        CheckpointBefore(c.run_id, c.phase).last_orgnr
                  /\ c.last_offset =
                        CheckpointBefore(c.run_id, c.phase).last_offset
                           + CHECKPOINT_EVERY_N
             ELSE c.last_offset =
                     CheckpointBefore(c.run_id, c.phase).last_offset + 1]_vars

\* an entity-list run has written its second checkpoint and a cursor run
\* its second
C34_Witness ==
    /\ \E c \in ingestion_checkpoint :
          c.phase = PHASE_DETAILS /\ c.last_offset = 2 * CHECKPOINT_EVERY_N
    /\ \E c \in ingestion_checkpoint :
          c.phase = PHASE_SEARCH /\ c.last_offset = 2

\* C36: with two entity-list runs at work on one batch, their entity
\* blocks taken in any order, every orgnr has at most one raw row and one
\* company row and every fact key one row; the runs have different run
\* ids, and a step of one run changes no checkpoint row of another run.
C36_TwoRunsKeepKeys ==
    /\ [](/\ \A i, j \in 1..Len(company_rows) :
               company_rows[i].orgnr = company_rows[j].orgnr => i = j
          /\ \A i, j \in 1..Len(financial_item_rows) :
               FactKey(financial_item_rows[i]) = FactKey(financial_item_rows[j])
                  => i = j
          /\ \A o \in RunsBatch :
               proff_raw_company[o].http_status # 0 =>
                  \E w \in Workers :
                     \E i \in 1..workers[w].processed :
                        workers[w].orgnrs[i] = o
          /\ DOMAIN proff_raw_company = RunsBatch
          /\ \A v, w \in Workers :
               v # w /\ workers[v].run_id # 0 =>
                  workers[v].run_id # workers[w].run_id)
    /\ [][\A w \in Workers :
             workers'[w] = workers[w] =>
                {c \in ingestion_checkpoint' : c.run_id = workers[w].run_id}
                = {c \in ingestion_checkpoint : c.run_id = workers[w].run_id}]_vars

\* both runs are entity-list runs, both have stored the first orgnr, the
\* later one over the rows of the earlier one, and both have written a
\* checkpoint
C36_Witness ==
    /\ \A w \in Workers :
          /\ workers[w].job = "details"
          /\ workers[w].processed > CHECKPOINT_EVERY_N
          /\ HasCheckpoint(ingestion_checkpoint, workers[w].run_id,
                           PHASE_DETAILS)
    /\ workers[1].processed # workers[2].processed
    /\ company_rows[1].excluded_reason = "public_sector"
    /\ company_rows[1].is_public_sector = "0"

====
